---- MODULE Spec2Model ----
(***************************************************************************)
(* Lobby Orchestrator + Account/Room Store (lobby_fixed.py, db_fixed.py)   *)
(* and the Game Session Runtime (Tetris_Battle/server/game_server.py).     *)
(*                                                                         *)
(* SpecLobby   : lobby connection handler threads and the Store's rooms.   *)
(* SpecRuntime : one Runtime process: join barrier, main loop, win         *)
(*               evaluation.                                               *)
(* SpecEngine  : one TetrisEngine (tetris_engine.py) cell by cell, called   *)
(*               as GameRoom.apply_input and tick_drop call it.            *)
(* SpecWire    : one socket between two ends and their framing code.       *)
(* SpecSessionLive : barrier and main loop, HELLOs at every moment.         *)
(* Each specification leaves the other subsystems' variables untouched.    *)
(***************************************************************************)
EXTENDS Integers, Sequences, FiniteSets, TLC

\* ------------------------------------------------------------------------
\* Bounds
\* ------------------------------------------------------------------------
\* lobby side
NumConns == 2
MaxUser == 3
MaxRooms == 1
MaxRoomCap == 3
MaxReq == 3

Conns == 1..NumConns
UserIds == 1..MaxUser
RoomIds == 1..MaxRooms
RoomCaps == 2..MaxRoomCap

\* the one game the Store knows, and a name it does not know
\* a Store whose game_get finds every name
KnownGames_All == {"Tetris_Battle", "Nope"}
KnownGames == {"Tetris_Battle"}
GameNames == {"Tetris_Battle", "Nope"}

\* the absent value (Python None) for ids and connections
None == 0

VARIABLES
    \* ---- Store (SimpleStorage.data["rooms"]) ----
    rooms,          \* sequence of room records, room id = position
    \* ---- Lobby globals ----
    room_game_map,  \* _room_game_map: set of room ids with cached metadata
    online,         \* _ONLINE_CLIENTS: user id -> connection (None = no entry)
    launches,       \* every Popen done by start_game_process, in order
    \* ---- per lobby connection handler thread ----
    lpc,            \* position of the handler of connection c
    lreq,           \* the request it is serving
    lresp,          \* the Store response it holds
    reply,          \* last frame written to connection c
    nreq,           \* requests received so far (bounded by MaxReq)
    current_user_id, \* handle_client's local: the user logged in on c
    inbox,          \* start packets delivered to connection c
    peer_closed,    \* connections whose client has closed its end
    \* ---- Runtime process (game_server.main) ----
    expect,         \* args.users as parsed (the expected roster)
    mode,           \* args.mode
    users,          \* main's local `users` (re-bound after the barrier)
    room,           \* the GameRoom object
    join_queue,     \* list shared by accept thread and main thread
    players,        \* dict uid -> PlayerConn: its keys in insertion order
    spectators,     \* list of spectator connections (its length)
    closed,         \* users whose PlayerConn.alive is False
    conns,          \* conns list built after the barrier (by user id)
    phase,          \* where main() is
    joinExit,       \* how the join loop was left
    now,            \* time.time() as read at the top of the loop iteration
    last_drop,      \* last gravity tick
    pollpos,        \* position in rl of the socket handled last
    failed,         \* sides whose socket read failed in this iteration
    nframes,        \* frames read so far in the main loop (bounded)
    hello_log,      \* first frames handle_hello has dealt with, and how
    sent,           \* frames written to each player's socket, in order
    last_broadcast, \* time of the last SNAPSHOT broadcast
    \* ---- one TetrisEngine (tetris_engine.py) ----
    engine,         \* the TetrisEngine object's fields
    bag,            \* next_piece's closure variable `bag`
    draws,          \* every shape next_piece has returned, in order
    last,           \* the method called last and what it returned
    locks,          \* lock_piece calls so far
    calls,          \* Engine method calls so far (bounded by MaxCalls)
    room_scores,    \* GameRoom.scores of the room the Engine plays in
    room_lines,     \* GameRoom.lines_total of that room
    \* ---- one socket and the two ends' framing code (utils/protocol.py) ----
    sender,         \* which protocol.py the writing end runs
    receiver,       \* which protocol.py the reading end runs
    wire,           \* bytes written to the socket and not yet read
    wsent,          \* every send_message call: its data, outcome and bytes
    wrecv,          \* every recv_message call: what it returned or raised
    wbroken         \* a recv_message raised; the stream is abandoned

\* what only the login branch, the spawn and the handler's end touch
lobbyAux == <<current_user_id, inbox, peer_closed>>
lobbyVars == <<rooms, room_game_map, online, launches, lpc, lreq, lresp,
               reply, nreq, lobbyAux>>
\* what the HELLO handling and the frame writes touch
runtimeAux == <<hello_log, sent, last_broadcast>>
runtimeVars == <<expect, mode, users, room, join_queue, players,
                 spectators, closed, conns, phase, joinExit, now, last_drop,
                 pollpos, failed, nframes, runtimeAux>>
\* one Engine, its bag, and the totals of its room
engineVars == <<engine, bag, draws, last, locks, calls, room_scores,
                room_lines>>
\* one socket between two ends
wireVars == <<sender, receiver, wire, wsent, wrecv, wbroken>>
\* what a lobby step, a Runtime step, an Engine step and a framing step
\* leave alone
notLobbyVars == <<runtimeVars, engineVars, wireVars>>
notRuntimeVars == <<lobbyVars, engineVars, wireVars>>
vars == <<lobbyVars, runtimeVars, engineVars, wireVars>>

\* ------------------------------------------------------------------------
\* Sequence helpers
\* ------------------------------------------------------------------------
Range(s) == {s[i] : i \in 1..Len(s)}

RECURSIVE RemoveFirst(_, _)
\* list.remove(x): drops the first occurrence
RemoveFirst(s, x) ==
    IF s = <<>> THEN <<>>
    ELSE IF Head(s) = x THEN Tail(s)
    ELSE <<Head(s)>> \o RemoveFirst(Tail(s), x)

\* ------------------------------------------------------------------------
\* Store: SimpleStorage (db_fixed.py)
\* ------------------------------------------------------------------------
\* _get_room: the room with that id, or None
HasRoom(rs, rid) == rid \in 1..Len(rs)

\* room_create: allocates nexts["room"], members start as [host]
room_create(rs, host, game, maxp) ==
    Append(rs, [id |-> Len(rs) + 1, game_name |-> game,
                host_user_id |-> host, status |-> "idle",
                users |-> <<host>>, max_players |-> maxp])

\* room_accept that appends without looking at the member list
room_accept_NoTest(rs, rid, uid) ==
    IF HasRoom(rs, rid) THEN [rs EXCEPT ![rid].users = Append(@, uid)]
    ELSE rs
\* room_accept: appends uid unless already a member; no other condition
room_accept(rs, rid, uid) ==
    IF HasRoom(rs, rid)
    THEN IF uid \notin Range(rs[rid].users)
         THEN [rs EXCEPT ![rid].users = Append(@, uid)]
         ELSE rs
    ELSE rs

\* room_leave: removes uid when it is a member
room_leave(rs, rid, uid) ==
    IF HasRoom(rs, rid) /\ uid \in Range(rs[rid].users)
    THEN [rs EXCEPT ![rid].users = RemoveFirst(@, uid)]
    ELSE rs

\* ------------------------------------------------------------------------
\* Lobby: handle_client (lobby_fixed.py)
\* ------------------------------------------------------------------------
NoReq == [action |-> "none", user_id |-> None, room_id |-> None,
          game |-> ""]
NoResp == [status |-> "none", id |-> None, users |-> <<>>, max_players |-> 0]

\* the capacity test of the accept branch
RoomIsFull(resp) == Len(resp.users) >= resp.max_players

LaunchesOf(rid) == {i \in 1..Len(launches) : launches[i].room_id = rid}

\* the lobby's own error reply of the create_room branch
UnknownGameReply == "error: Unknown game"
\* replies whose status is error
ErrorReplies == {"error", UnknownGameReply}

\* create_room: the request is read and game_get is sent for its game
CreateRoomRecv(c, uid, game) ==
    /\ lpc[c] = "idle" /\ nreq < MaxReq
    /\ game \in KnownGames =>
          Len(rooms) + Cardinality({d \in Conns : lpc[d] = "create_get"
                                       /\ lreq[d].game \in KnownGames})
             < MaxRooms
    /\ lreq' = [lreq EXCEPT ![c] = [action |-> "create_room", user_id |-> uid,
                                    room_id |-> None, game |-> game]]
    /\ lpc' = [lpc EXCEPT ![c] = "create_get"]
    /\ nreq' = nreq + 1
    /\ UNCHANGED <<rooms, room_game_map, online, launches, lresp, reply>>
    /\ UNCHANGED lobbyAux
    /\ UNCHANGED notLobbyVars

\* create_room, unknown game: game_get finds nothing, error reply, continue
CreateRoomUnknown(c, game) ==
    /\ lpc[c] = "create_get"
    /\ game = lreq[c].game
    /\ game \notin KnownGames
    /\ reply' = [reply EXCEPT ![c] = UnknownGameReply]
    /\ lpc' = [lpc EXCEPT ![c] = "idle"]
    /\ lreq' = [lreq EXCEPT ![c] = NoReq]
    /\ UNCHANGED <<rooms, room_game_map, online, launches, lresp, nreq>>
    /\ UNCHANGED lobbyAux
    /\ UNCHANGED notLobbyVars

\* create_room, known game: the request is forwarded and the Store runs
\* room_create
CreateRoomCall(c, uid, game, maxp) ==
    /\ lpc[c] = "create_get"
    /\ game = lreq[c].game /\ uid = lreq[c].user_id
    /\ game \in KnownGames
    /\ Len(rooms) < MaxRooms
    /\ rooms' = room_create(rooms, uid, game, maxp)
    /\ lreq' = [lreq EXCEPT ![c].room_id = Len(rooms) + 1]
    /\ lpc' = [lpc EXCEPT ![c] = "create_resp"]
    /\ UNCHANGED <<room_game_map, online, launches, lresp, reply, nreq>>
    /\ UNCHANGED lobbyAux
    /\ UNCHANGED notLobbyVars

\* create_room, after the Store's success response: registry and cache
CreateRoomDone(c) ==
    /\ lpc[c] = "create_resp"
    /\ online' = [online EXCEPT ![lreq[c].user_id] = c]
    /\ room_game_map' = room_game_map \cup {lreq[c].room_id}
    /\ reply' = [reply EXCEPT ![c] = "success"]
    /\ lpc' = [lpc EXCEPT ![c] = "idle"]
    /\ lreq' = [lreq EXCEPT ![c] = NoReq]
    /\ UNCHANGED <<rooms, launches, lresp, nreq>>
    /\ UNCHANGED lobbyAux
    /\ UNCHANGED notLobbyVars

\* accept: the handler registers the connection and sends the RPC
AcceptRecv(c, uid, rid) ==
    /\ lpc[c] = "idle" /\ nreq < MaxReq
    /\ online' = [online EXCEPT ![uid] = c]
    /\ lreq' = [lreq EXCEPT ![c] = [action |-> "accept", user_id |-> uid,
                                    room_id |-> rid, game |-> ""]]
    /\ lpc' = [lpc EXCEPT ![c] = "accept_call"]
    /\ nreq' = nreq + 1
    /\ UNCHANGED <<rooms, room_game_map, launches, lresp, reply>>
    /\ UNCHANGED lobbyAux
    /\ UNCHANGED notLobbyVars

\* Store thread serving that RPC: room_accept under the storage lock
StoreRoomAccept(c) ==
    /\ lpc[c] = "accept_call"
    /\ rooms' = room_accept(rooms, lreq[c].room_id, lreq[c].user_id)
    /\ lpc' = [lpc EXCEPT ![c] = "accept_locked"]
    /\ UNCHANGED <<room_game_map, online, launches, lreq, lresp, reply, nreq>>
    /\ UNCHANGED lobbyAux
    /\ UNCHANGED notLobbyVars

\* Store thread: send_message serialises the returned room object (the
\* live dict) after the lock was released
StoreAcceptReply(c) ==
    /\ lpc[c] = "accept_locked"
    /\ LET rid == lreq[c].room_id IN
       lresp' = [lresp EXCEPT ![c] =
                   IF HasRoom(rooms, rid)
                   THEN [status |-> "success", id |-> rid,
                         users |-> rooms[rid].users,
                         max_players |-> rooms[rid].max_players]
                   ELSE [status |-> "success", id |-> None,
                         users |-> <<>>, max_players |-> 0]]
    /\ lpc' = [lpc EXCEPT ![c] = "accept_resp"]
    /\ UNCHANGED <<rooms, room_game_map, online, launches, lreq, reply, nreq>>
    /\ UNCHANGED lobbyAux
    /\ UNCHANGED notLobbyVars

\* a connection whose handler has not ended: a frame can be written to it
ConnOpen(c) == lpc[c] \notin {"closed", "left"}

\* the finally block: the registry entry of the logged-in user is deleted
handler_finally(on, cur) ==
    IF cur # None THEN [on EXCEPT ![cur] = None] ELSE on

\* GameExecutor._find_free_port; busy = connect_ex found a listener on 33003
find_free_port(busy) == IF busy THEN 33004 ELSE 33003
\* a listener on 33003 can only be a Runtime launched there earlier
MayBeBusy == IF \E i \in 1..Len(launches) : launches[i].port = 33003
             THEN BOOLEAN ELSE {FALSE}

\* the start notification built after a launch
start_packet(port, us) == [host |-> "public_host", port |-> port, users |-> us]

\* the connections the push loop writes to: the registry entries of the
\* other roster members (a write to an ended connection raises and is
\* swallowed)
PushTargets(us, user_id) ==
    {online[u] : u \in {v \in Range(us) : v # user_id /\ online[v] # None}}

\* what a write to connection c can do: it succeeds, or, once the client has
\* closed its end, it may raise
WriteOutcomes(c) == IF c \in peer_closed THEN BOOLEAN ELSE {TRUE}

\* a frame written to d reaches its client
Delivered(d) == ConnOpen(d) /\ d \notin peer_closed

\* accept, after the response: forward it, then the capacity check, the
\* spawn and the start notifications.  resp_ok = the response could be
\* written; ok = start_game_process got as far as Popen; sent_ok = the start
\* packet could be written to this connection.
AcceptCheck(c, resp_ok, ok, busy, sent_ok) ==
    /\ lpc[c] = "accept_resp"
    /\ busy \in MayBeBusy
    /\ resp_ok \in WriteOutcomes(c)
    /\ sent_ok \in WriteOutcomes(c)
    /\ LET resp == lresp[c] IN
       IF ~resp_ok
       THEN \* send_message(conn, resp) raises: except, finally
            /\ lpc' = [lpc EXCEPT ![c] = "closed"]
            /\ online' = handler_finally(online, current_user_id[c])
            /\ UNCHANGED <<room_game_map, launches, inbox, reply>>
       ELSE IF resp.id = None
       THEN \* resp["data"] is None: room_data["id"] raises, handler ends
            /\ lpc' = [lpc EXCEPT ![c] = "closed"]
            /\ reply' = [reply EXCEPT ![c] = "success"]
            /\ online' = handler_finally(online, current_user_id[c])
            /\ UNCHANGED <<room_game_map, launches, inbox>>
       ELSE /\ lpc' = [lpc EXCEPT ![c] = "idle"]
            /\ online' = online
            /\ IF RoomIsFull(resp)
               THEN /\ room_game_map' = room_game_map \cup {resp.id}
                    /\ IF ok
                       THEN LET port == find_free_port(busy)
                                pkt == start_packet(port, resp.users)
                                to == IF sent_ok
                                      THEN PushTargets(resp.users,
                                                       lreq[c].user_id)
                                              \cup {c}
                                      ELSE {}
                            IN /\ launches' = Append(launches,
                                      [room_id |-> resp.id, by |-> c,
                                       users |-> resp.users, port |-> port])
                               /\ inbox' = [d \in Conns |->
                                      IF d \in to /\ Delivered(d)
                                      THEN inbox[d] \cup {pkt}
                                      ELSE inbox[d]]
                               /\ reply' = [d \in Conns |->
                                      IF d \in to /\ (d = c \/ ConnOpen(d))
                                      THEN "start"
                                      ELSE IF d = c THEN "success"
                                      ELSE reply[d]]
                       ELSE /\ launches' = launches
                            /\ inbox' = inbox
                            /\ reply' = [reply EXCEPT ![c] = "success"]
               ELSE /\ reply' = [reply EXCEPT ![c] = "success"]
                    /\ UNCHANGED <<room_game_map, launches, inbox>>
    /\ lreq' = [lreq EXCEPT ![c] = NoReq]
    /\ lresp' = [lresp EXCEPT ![c] = NoResp]
    /\ UNCHANGED <<rooms, nreq, current_user_id, peer_closed>>
    /\ UNCHANGED notLobbyVars

\* leave: falls to the passthrough branch; the Store runs room_leave
Leave(c, uid, rid) ==
    /\ lpc[c] = "idle" /\ nreq < MaxReq
    /\ rooms' = room_leave(rooms, rid, uid)
    /\ reply' = [reply EXCEPT ![c] = "success"]
    /\ nreq' = nreq + 1
    /\ UNCHANGED <<room_game_map, online, launches, lpc, lreq, lresp>>
    /\ UNCHANGED lobbyAux
    /\ UNCHANGED notLobbyVars

\* any other request (the final else branch): the Store has answered and
\* the handler enters send_message(conn, resp); _LOCK is not held
ForwardRecv(c) ==
    /\ lpc[c] = "idle" /\ nreq < MaxReq
    /\ lpc' = [lpc EXCEPT ![c] = "sending"]
    /\ nreq' = nreq + 1
    /\ UNCHANGED <<rooms, room_game_map, online, launches, lreq, lresp,
                   reply>>
    /\ UNCHANGED lobbyAux
    /\ UNCHANGED notLobbyVars

\* that sendall returns (ok) or raises, which ends the handler
ForwardSent(c, ok) ==
    /\ lpc[c] = "sending"
    /\ ok \in WriteOutcomes(c)
    /\ IF ok
       THEN /\ reply' = [reply EXCEPT ![c] = "success"]
            /\ lpc' = [lpc EXCEPT ![c] = "idle"]
            /\ online' = online
       ELSE /\ reply' = reply
            /\ lpc' = [lpc EXCEPT ![c] = "closed"]
            /\ online' = handler_finally(online, current_user_id[c])
    /\ UNCHANGED <<rooms, room_game_map, launches, lreq, lresp, nreq>>
    /\ UNCHANGED lobbyAux
    /\ UNCHANGED notLobbyVars

\* auth_login: the request is forwarded; the Store's login succeeds for a
\* known account with the right password (good) and fails otherwise
LoginCall(c, u, good) ==
    /\ lpc[c] = "idle" /\ nreq < MaxReq
    /\ lreq' = [lreq EXCEPT ![c] = [action |-> "auth_login", user_id |-> u,
                                    room_id |-> None, game |-> ""]]
    /\ lresp' = [lresp EXCEPT ![c] =
                   IF good
                   THEN [status |-> "success", id |-> u, users |-> <<>>,
                         max_players |-> 0]
                   ELSE [status |-> "error", id |-> None, users |-> <<>>,
                         max_players |-> 0]]
    /\ lpc' = [lpc EXCEPT ![c] = "login_resp"]
    /\ nreq' = nreq + 1
    /\ UNCHANGED <<rooms, room_game_map, online, launches, reply>>
    /\ UNCHANGED lobbyAux
    /\ UNCHANGED notLobbyVars

\* the registry write of a login that keeps an entry already present
login_register_KeepFirst(on, uid, c) ==
    IF on[uid] = None THEN [on EXCEPT ![uid] = c] ELSE on

\* _ONLINE_CLIENTS[uid] = conn
login_register(on, uid, c) == [on EXCEPT ![uid] = c]

\* auth_login, after the response: on success the user is remembered and
\* registered; the response is forwarded either way
LoginDone(c) ==
    /\ lpc[c] = "login_resp"
    /\ IF lresp[c].status = "success"
       THEN /\ current_user_id' = [current_user_id EXCEPT ![c] = lresp[c].id]
            /\ online' = login_register(online, lresp[c].id, c)
       ELSE UNCHANGED <<current_user_id, online>>
    /\ reply' = [reply EXCEPT ![c] = lresp[c].status]
    /\ lpc' = [lpc EXCEPT ![c] = "idle"]
    /\ lreq' = [lreq EXCEPT ![c] = NoReq]
    /\ lresp' = [lresp EXCEPT ![c] = NoResp]
    /\ UNCHANGED <<rooms, room_game_map, launches, nreq, inbox, peer_closed>>
    /\ UNCHANGED notLobbyVars

\* logout: on the Store's success the handler forgets its user; the registry
\* is not touched
Logout(c, good) ==
    /\ lpc[c] = "idle" /\ nreq < MaxReq
    /\ current_user_id' = IF good THEN [current_user_id EXCEPT ![c] = None]
                          ELSE current_user_id
    /\ reply' = [reply EXCEPT ![c] = IF good THEN "success" ELSE "error"]
    /\ nreq' = nreq + 1
    /\ UNCHANGED <<rooms, room_game_map, online, launches, lpc, lreq, lresp,
                   inbox, peer_closed>>
    /\ UNCHANGED notLobbyVars

\* the client closes its end of connection c
PeerClose(c) ==
    /\ ConnOpen(c)
    /\ c \notin peer_closed
    /\ peer_closed' = peer_closed \cup {c}
    /\ UNCHANGED <<rooms, room_game_map, online, launches, lpc, lreq, lresp,
                   reply, nreq, current_user_id, inbox>>
    /\ UNCHANGED notLobbyVars

\* the client is gone: recv_message returns nothing or raises, the loop
\* ends and the finally block runs
Disconnect(c) ==
    /\ lpc[c] = "idle"
    /\ c \in peer_closed
    /\ lpc' = [lpc EXCEPT ![c] = "left"]
    /\ online' = handler_finally(online, current_user_id[c])
    /\ UNCHANGED <<rooms, room_game_map, launches, lreq, lresp, reply, nreq>>
    /\ UNCHANGED lobbyAux
    /\ UNCHANGED notLobbyVars

LobbyNext ==
    \/ \E c \in Conns, u \in UserIds, g \in GameNames : CreateRoomRecv(c, u, g)
    \/ \E c \in Conns, g \in GameNames : CreateRoomUnknown(c, g)
    \/ \E c \in Conns, u \in UserIds, g \in GameNames, m \in RoomCaps :
          CreateRoomCall(c, u, g, m)
    \/ \E c \in Conns : CreateRoomDone(c)
    \/ \E c \in Conns, u \in UserIds, r \in RoomIds : AcceptRecv(c, u, r)
    \/ \E c \in Conns : StoreRoomAccept(c)
    \/ \E c \in Conns : StoreAcceptReply(c)
    \/ \E c \in Conns, resp_ok, ok, busy, sent_ok \in BOOLEAN :
          AcceptCheck(c, resp_ok, ok, busy, sent_ok)
    \/ \E c \in Conns, u \in UserIds, r \in RoomIds : Leave(c, u, r)
    \/ \E c \in Conns : ForwardRecv(c)
    \/ \E c \in Conns, ok \in BOOLEAN : ForwardSent(c, ok)
    \/ \E c \in Conns, u \in UserIds, good \in BOOLEAN : LoginCall(c, u, good)
    \/ \E c \in Conns : LoginDone(c)
    \/ \E c \in Conns, good \in BOOLEAN : Logout(c, good)
    \/ \E c \in Conns : PeerClose(c)
    \/ \E c \in Conns : Disconnect(c)

\* ------------------------------------------------------------------------
\* Runtime bounds and inputs
\* ------------------------------------------------------------------------
MaxUid == 4
MaxConn == 3
MaxFrames == 1
MaxTime == 1
TimedSeconds == 1
TargetLines == 1
DropMs == 1
MaxClear == 1
MaxDist == 1
MaxDrop == 1

\* --users as the lobby passes it: room members in join order
FullRoster == <<2, 1, 3>>
ExpectRosters == {SubSeq(FullRoster, 1, n) : n \in 1..Len(FullRoster)}
Modes == {"survival", "timed", "lines"}
\* HELLO frames: any user id as a player; a spectator's id is never used
HelloInputs ==
    {[uid |-> u, role |-> "player"] : u \in 1..MaxUid}
        \cup {[uid |-> MaxUid, role |-> "spectator"]}
InputActions == {"LEFT", "RIGHT", "SOFT", "HARD", "CW", "CCW", "HOLD", "NOP"}

\* start_ts before the first evaluation (Python None)
NoTs == -1

\* ------------------------------------------------------------------------
\* Per-Player Engine as the Runtime sees it (tetris_engine.py).  The board,
\* active piece, lookahead and hold slot are summarised by `rev`, the number
\* of operations that changed them; what an operation returns and whether it
\* tops the Engine out is drawn from the results the Engine can produce.
\* ------------------------------------------------------------------------
ScoreTable == <<0, 100, 300, 500, 800>>

NewEngine == [top_out |-> FALSE, rev |-> 0]

NoEffect == [changed |-> FALSE, cleared |-> 0, score |-> 0, top |-> FALSE]

\* lock_piece: cleared rows, table score, and the spawn that may top out
LockOutcomes(bonus) ==
    {[changed |-> TRUE, cleared |-> l, score |-> ScoreTable[l + 1] + bonus,
      top |-> t] : l \in 0..MaxClear, t \in BOOLEAN}

\* move / rotate: applied or rejected, never a score
MoveOutcomes ==
    {NoEffect, [changed |-> TRUE, cleared |-> 0, score |-> 0, top |-> FALSE]}

\* soft_drop: one row down for 1 point, else lock
SoftOutcomes ==
    {[changed |-> TRUE, cleared |-> 0, score |-> 1, top |-> FALSE]}
        \cup LockOutcomes(0)

\* hard_drop: lock after dist rows, 2 points per row
HardOutcomes == UNION {LockOutcomes(2 * d) : d \in 0..MaxDist}

\* gravity_step: one row down for nothing, else lock
GravityOutcomes ==
    {[changed |-> TRUE, cleared |-> 0, score |-> 0, top |-> FALSE]}
        \cup LockOutcomes(0)

\* hold: refused when used, else swap/stash, which may top out
HoldOutcomes ==
    {NoEffect} \cup {[changed |-> TRUE, cleared |-> 0, score |-> 0, top |-> t]
                        : t \in BOOLEAN}

\* what engine method apply_input calls for an action string
EngineOutcomes(eng, action) ==
    IF eng.top_out THEN {NoEffect}
    ELSE CASE action \in {"LEFT", "RIGHT", "CW", "CCW"} -> MoveOutcomes
           [] action = "SOFT" -> SoftOutcomes
           [] action = "HARD" -> HardOutcomes
           [] action = "HOLD" -> HoldOutcomes
           [] OTHER -> {NoEffect}

\* the Engine after an operation with that outcome
EngineAfter(eng, o) ==
    [top_out |-> eng.top_out \/ o.top,
     rev |-> IF o.changed THEN eng.rev + 1 ELSE eng.rev]

\* ------------------------------------------------------------------------
\* GameRoom (game_server.py)
\* ------------------------------------------------------------------------
Labels == <<"P1", "P2", "P3", "P4">>
\* f"P{w_idx+1}" for a 0-based index
Label(idx0) == Labels[idx0 + 1]

\* GameRoom.__init__
GameRoom(us, md) ==
    [users |-> us, mode |-> md,
     timed_seconds |-> TimedSeconds, target_lines |-> TargetLines,
     start_ts |-> NoTs, over |-> FALSE, winner |-> "", reason |-> "",
     engines |-> [i \in 1..Len(us) |-> NewEngine],
     lines_total |-> [i \in 1..Len(us) |-> 0],
     scores |-> [i \in 1..Len(us) |-> 0]]

\* GameRoom.apply_input; side is 0-based as in the source
apply_input(rm, side, action, o) ==
    IF side >= Len(rm.engines) THEN rm
    ELSE IF action \in {"SOFT", "HARD"}
         THEN [rm EXCEPT !.engines[side + 1] = EngineAfter(@, o),
                         !.scores[side + 1] = @ + o.score,
                         !.lines_total[side + 1] = @ + o.cleared]
         ELSE [rm EXCEPT !.engines[side + 1] = EngineAfter(@, o)]

\* GameRoom.tick_drop; outs[i] is what gravity_step returns for Engine i
tick_drop(rm, outs) ==
    [rm EXCEPT
       !.engines = [i \in 1..Len(rm.engines) |->
                      IF rm.engines[i].top_out THEN rm.engines[i]
                      ELSE EngineAfter(rm.engines[i], outs[i])],
       !.scores = [i \in 1..Len(rm.engines) |->
                      IF rm.engines[i].top_out THEN rm.scores[i]
                      ELSE rm.scores[i] + outs[i].score],
       !.lines_total = [i \in 1..Len(rm.engines) |->
                      IF rm.engines[i].top_out THEN rm.lines_total[i]
                      ELSE rm.lines_total[i] + outs[i].cleared]]

RECURSIVE ScanScores_NoTieReset(_, _, _, _)
\* ScanScores without the `elif s == max_s: w_idx = -1` branch
ScanScores_NoTieReset(scores, i, max_s, w_idx) ==
    IF i >= Len(scores) THEN w_idx
    ELSE LET s == scores[i + 1] IN
         IF s > max_s THEN ScanScores_NoTieReset(scores, i + 1, s, i)
         ELSE ScanScores_NoTieReset(scores, i + 1, max_s, w_idx)

RECURSIVE ScanScores(_, _, _, _)
\* the timed-mode loop over enumerate(self.scores); i, w_idx are 0-based
ScanScores(scores, i, max_s, w_idx) ==
    IF i >= Len(scores) THEN w_idx
    ELSE LET s == scores[i + 1] IN
         IF s > max_s THEN ScanScores(scores, i + 1, s, i)
         ELSE IF s = max_s THEN ScanScores(scores, i + 1, max_s, -1)
         ELSE ScanScores(scores, i + 1, max_s, w_idx)

\* alive_indices
AliveIndices(rm) == {i \in 0..(Len(rm.engines) - 1) : ~rm.engines[i + 1].top_out}

\* check_survival ending the match only when nobody is left (`< 1`)
check_survival_OffByOne(rm) ==
    LET alive == AliveIndices(rm) IN
    IF Len(rm.engines) > 1
    THEN IF Cardinality(alive) < 1
         THEN [rm EXCEPT !.over = TRUE, !.winner = "draw",
                  !.reason = "All topped out"]
         ELSE rm
    ELSE IF Cardinality(alive) = 0
         THEN [rm EXCEPT !.over = TRUE, !.winner = "None",
                  !.reason = "Topped out"]
         ELSE rm

\* check_game_over, survival branch
check_survival(rm) ==
    LET alive == AliveIndices(rm) IN
    IF Len(rm.engines) > 1
    THEN IF Cardinality(alive) <= 1
         THEN IF Cardinality(alive) = 1
              THEN [rm EXCEPT !.over = TRUE,
                       !.winner = Label(CHOOSE i \in alive : TRUE),
                       !.reason = "Last man standing"]
              ELSE [rm EXCEPT !.over = TRUE, !.winner = "draw",
                       !.reason = "All topped out"]
         ELSE rm
    ELSE IF Cardinality(alive) = 0
         THEN [rm EXCEPT !.over = TRUE, !.winner = "None",
                  !.reason = "Topped out"]
         ELSE rm

\* check_game_over, timed branch
check_timed(rm, t) ==
    LET st == IF rm.start_ts = NoTs THEN t ELSE rm.start_ts
        w_idx == ScanScores(rm.scores, 0, -1, -1)
    IN IF t - st >= rm.timed_seconds
       THEN [rm EXCEPT !.start_ts = st, !.over = TRUE,
                !.winner = IF w_idx # -1 THEN Label(w_idx) ELSE "draw",
                !.reason = "Time's up"]
       ELSE [rm EXCEPT !.start_ts = st]

\* GameRoom.check_game_over: any other mode string falls through
check_game_over(rm, t) ==
    IF rm.mode = "survival" THEN check_survival(rm)
    ELSE IF rm.mode = "timed" THEN check_timed(rm, t)
    ELSE rm

\* ------------------------------------------------------------------------
\* Runtime: accept_thread and main (game_server.py)
\* ------------------------------------------------------------------------
PlayerIds(ps) == Range(ps)

\* actual_users taken as list(players): connection order, not roster order
ActualUsers_ConnOrder(us, ps) == ps

\* actual_users: expected users that joined, in roster order, then every
\* other joined player in dict order
ActualUsers(us, ps) ==
    LET joined == PlayerIds(ps)
        kept == SelectSeq(us, LAMBDA u : u \in joined)
        extra == SelectSeq(ps, LAMBDA u : u \notin Range(kept))
    IN kept \o extra

\* the re-initialisation test: a new GameRoom only when the size changed
RosterAfterBarrier(us, actual) ==
    IF Len(actual) # Len(us) THEN actual ELSE us

\* the room kept as built for the expected roster
RoomAfterBarrier_Keep(rm, us, actual, md) == rm

RoomAfterBarrier(rm, us, actual, md) ==
    IF Len(actual) # Len(us) THEN GameRoom(actual, md) ELSE rm

\* side_of: 0-based side of a user id, -1 when absent
SideOf(us, uid) ==
    IF uid \in Range(us)
    THEN (CHOOSE i \in 1..Len(us) : us[i] = uid) - 1
    ELSE -1

\* rlist = live player sockets, then live spectator sockets
NumSocks == Len(conns) + spectators
\* c.alive of the k-th socket; a spectator's PlayerConn is never closed
SockAlive(k) == IF k <= Len(conns) THEN conns[k] \notin closed ELSE TRUE

\* the except branch closing the connection without the forfeit
read_failure_NoForfeit(rm, idx) == rm

\* the except branch of the poll loop for the player at index idx (1-based)
read_failure(rm, idx) == [rm EXCEPT !.engines[idx].top_out = TRUE]

\* a frame as its receiver sees it: the type and the field that tells two
\* frames of a type apart (role index, seconds, side)
Frame(t, v) == [type |-> t, v |-> v]

\* the countdown counting up
Countdown_Up == <<1, 2, 3>>
\* range(3, 0, -1)
Countdown == <<3, 2, 1>>

\* SNAPSHOT_INTERVAL_MS, in the unit of `now`
SnapshotMs == 1

\* the index WELCOME reports: users.index(uid), or len(players)-1 for a
\* user outside the roster; ps is `players` with uid already added
WelcomeIdx(us, ps, uid) ==
    IF uid \in Range(us) THEN SideOf(us, uid) ELSE Len(ps) - 1

\* the live player connections, by user id
LiveConns == {u \in Range(conns) : u \notin closed}

\* `sent` after frame f was written to every socket in to
Broadcast(to, f) ==
    [u \in DOMAIN sent |-> IF u \in to THEN Append(sent[u], f) ELSE sent[u]]

\* COUNTDOWN 3, 2, 1 and START written to every connection of the roster
CountdownAndStart(us) ==
    [u \in DOMAIN sent |->
        IF u \in Range(us)
        THEN sent[u] \o [i \in 1..Len(Countdown) |->
                            Frame("COUNTDOWN", Countdown[i])]
                     \o <<Frame("START", 0)>>
        ELSE sent[u]]

\* the SNAPSHOT broadcast: build_snapshot(idx) to each live conns[idx]
SnapshotBroadcast ==
    [u \in DOMAIN sent |->
        IF u \in LiveConns
        THEN Append(sent[u], Frame("SNAPSHOT", SideOf(conns, u) + 1))
        ELSE sent[u]]

\* accept_thread / handle_hello: a HELLO is read and queued
Hello(uid, role) ==
    /\ Len(join_queue) + Len(players) + spectators < MaxConn
    /\ phase \notin {"exit_noplayers", "crashed", "result"}
    /\ join_queue' = Append(join_queue, [uid |-> uid, role |-> role])
    /\ UNCHANGED <<expect, mode, users, room, players, spectators, closed,
                   conns, phase, joinExit, now, last_drop, pollpos, failed,
                   nframes>>
    /\ UNCHANGED <<sent, last_broadcast>>
    /\ UNCHANGED notRuntimeVars

\* while len(players) < len(users): condition false, the barrier is complete
JoinFull ==
    /\ phase = "join_top"
    /\ Len(players) >= Len(users)
    /\ phase' = "roster"
    /\ joinExit' = "full"
    /\ UNCHANGED <<expect, mode, users, room, join_queue, players,
                   spectators, closed, conns, now, last_drop, pollpos, failed,
                   nframes>>
    /\ UNCHANGED runtimeAux
    /\ UNCHANGED notRuntimeVars

\* the WAIT_LIMIT check fires: break
JoinTimeout ==
    /\ phase = "join_top"
    /\ Len(players) < Len(users)
    /\ phase' = "roster"
    /\ joinExit' = "timeout"
    /\ UNCHANGED <<expect, mode, users, room, join_queue, players,
                   spectators, closed, conns, now, last_drop, pollpos, failed,
                   nframes>>
    /\ UNCHANGED runtimeAux
    /\ UNCHANGED notRuntimeVars

\* no timeout yet: go on to drain the queue
JoinEnter ==
    /\ phase = "join_top"
    /\ Len(players) < Len(users)
    /\ phase' = "join_drain"
    /\ UNCHANGED <<expect, mode, users, room, join_queue, players,
                   spectators, closed, conns, joinExit, now, last_drop,
                   pollpos, failed, nframes>>
    /\ UNCHANGED runtimeAux
    /\ UNCHANGED notRuntimeVars

\* while join_queue: pop(0) and register the connection
JoinPop ==
    /\ phase = "join_drain"
    /\ join_queue # <<>>
    /\ LET j == Head(join_queue) IN
       /\ join_queue' = Tail(join_queue)
       /\ IF j.role = "player"
          THEN IF j.uid \in PlayerIds(players)
               THEN \* duplicate user: conn.close(), continue
                    UNCHANGED <<players, spectators, sent>>
               ELSE /\ players' = Append(players, j.uid)
                    /\ sent' = [sent EXCEPT ![j.uid] = Append(@,
                          Frame("WELCOME",
                                WelcomeIdx(users, players', j.uid) + 1))]
                    /\ UNCHANGED spectators
          ELSE /\ spectators' = spectators + 1
               /\ UNCHANGED <<players, sent>>
    /\ UNCHANGED <<expect, mode, users, room, closed, conns, phase,
                   joinExit,
                   now, last_drop, pollpos, failed, nframes>>
    /\ UNCHANGED <<hello_log, last_broadcast>>
    /\ UNCHANGED notRuntimeVars

\* queue empty: sleep, back to the loop condition
JoinSleep ==
    /\ phase = "join_drain"
    /\ join_queue = <<>>
    /\ phase' = "join_top"
    /\ UNCHANGED <<expect, mode, users, room, join_queue, players,
                   spectators, closed, conns, joinExit, now, last_drop,
                   pollpos, failed, nframes>>
    /\ UNCHANGED runtimeAux
    /\ UNCHANGED notRuntimeVars

\* after the barrier: roster re-derivation, room re-initialisation, conns,
\* countdown, START, first spawn
Roster ==
    /\ phase = "roster"
    /\ LET actual == ActualUsers(users, players)
           us2 == RosterAfterBarrier(users, actual)
       IN IF actual = <<>>
          THEN \* "No players connected. Shutting down."
               /\ phase' = "exit_noplayers"
               /\ UNCHANGED <<users, room, conns, sent>>
          ELSE IF Range(us2) \subseteq PlayerIds(players)
          THEN /\ users' = us2
               /\ room' = RoomAfterBarrier(room, users, actual, mode)
               /\ conns' = us2
               /\ sent' = CountdownAndStart(us2)
               /\ phase' = "main_top"
          ELSE \* players[u] raises KeyError
               /\ phase' = "crashed"
               /\ UNCHANGED <<users, room, conns, sent>>
    /\ UNCHANGED <<expect, mode, join_queue, players, spectators,
                   closed, joinExit, now, last_drop, pollpos, failed, nframes>>
    /\ UNCHANGED <<hello_log, last_broadcast>>
    /\ UNCHANGED notRuntimeVars

\* while not room.over: a new iteration reads the clock and selects
LoopIter(dt) ==
    /\ phase = "main_top"
    /\ ~room.over
    /\ now + dt <= MaxTime
    /\ now' = now + dt
    /\ pollpos' = 0
    /\ failed' = {}
    /\ phase' = "poll"
    /\ UNCHANGED <<expect, mode, users, room, join_queue, players,
                   spectators, closed, conns, joinExit, last_drop, nframes>>
    /\ UNCHANGED runtimeAux
    /\ UNCHANGED notRuntimeVars

\* while not room.over: the loop ends, GAME_OVER is broadcast
LoopExit ==
    /\ phase = "main_top"
    /\ room.over
    /\ phase' = "result"
    /\ UNCHANGED <<expect, mode, users, room, join_queue, players,
                   spectators, closed, conns, joinExit, now, last_drop,
                   pollpos, failed, nframes>>
    /\ sent' = Broadcast(LiveConns, Frame("GAME_OVER", 0))
    /\ UNCHANGED <<hello_log, last_broadcast>>
    /\ UNCHANGED notRuntimeVars

Pollable(k) ==
    /\ phase = "poll"
    /\ nframes < MaxFrames
    /\ k \in (pollpos + 1)..NumSocks
    /\ SockAlive(k)

\* an INPUT frame is read from socket k
PollInput(k, uid, act) ==
    /\ Pollable(k)
    /\ LET side == SideOf(users, uid) IN
       IF side # -1
       THEN \E o \in (IF side < Len(room.engines)
                      THEN EngineOutcomes(room.engines[side + 1], act)
                      ELSE {NoEffect}) :
               room' = apply_input(room, side, act, o)
       ELSE room' = room
    /\ pollpos' = k
    /\ nframes' = nframes + 1
    /\ UNCHANGED <<expect, mode, users, join_queue, players,
                   spectators, closed, conns, phase, joinExit, now, last_drop,
                   failed>>
    /\ UNCHANGED runtimeAux
    /\ UNCHANGED notRuntimeVars

\* a CHAT or PLUGIN frame is read from socket k and relayed
PollRelay(k) ==
    /\ Pollable(k)
    /\ pollpos' = k
    /\ nframes' = nframes + 1
    /\ UNCHANGED <<expect, mode, users, room, join_queue, players,
                   spectators, closed, conns, phase, joinExit, now, last_drop,
                   failed>>
    /\ sent' = Broadcast(LiveConns, Frame("CHAT", 0))
    /\ UNCHANGED <<hello_log, last_broadcast>>
    /\ UNCHANGED notRuntimeVars

\* recv_message on socket k raises (peer closed, bad length, bad frame)
PollFail(k) ==
    /\ Pollable(k)
    /\ IF k <= Len(conns)
       THEN /\ closed' = closed \cup {conns[k]}
            /\ room' = read_failure(room, k)
            /\ failed' = failed \cup {k}
       ELSE UNCHANGED <<closed, room, failed>>
    /\ pollpos' = k
    /\ nframes' = nframes + 1
    /\ UNCHANGED <<expect, mode, users, join_queue, players,
                   spectators, conns, phase, joinExit, now, last_drop>>
    /\ UNCHANGED runtimeAux
    /\ UNCHANGED notRuntimeVars

\* every socket of rl has been handled
PollDone ==
    /\ phase = "poll"
    /\ phase' = "gravity"
    /\ UNCHANGED <<expect, mode, users, room, join_queue, players,
                   spectators, closed, conns, joinExit, now, last_drop,
                   pollpos, failed, nframes>>
    /\ UNCHANGED runtimeAux
    /\ UNCHANGED notRuntimeVars

\* gravity: tick_drop when the drop interval elapsed
Gravity ==
    /\ phase = "gravity"
    /\ IF now - last_drop >= DropMs
       THEN /\ \E outs \in [1..Len(room.engines) -> GravityOutcomes] :
                  room' = tick_drop(room, outs)
            /\ last_drop' = now
       ELSE UNCHANGED <<room, last_drop>>
    /\ phase' = "check"
    /\ UNCHANGED <<expect, mode, users, join_queue, players,
                   spectators, closed, conns, joinExit, now, pollpos, failed,
                   nframes>>
    /\ UNCHANGED runtimeAux
    /\ UNCHANGED notRuntimeVars

\* the SNAPSHOT broadcast when its interval elapsed, then
\* room.check_game_over(now) at the end of the iteration
Check ==
    /\ phase = "check"
    /\ IF now - last_broadcast >= SnapshotMs
       THEN /\ sent' = SnapshotBroadcast
            /\ last_broadcast' = now
       ELSE UNCHANGED <<sent, last_broadcast>>
    /\ room' = check_game_over(room, now)
    /\ phase' = "main_top"
    /\ UNCHANGED <<expect, mode, users, join_queue, players,
                   spectators, closed, conns, joinExit, now, last_drop,
                   pollpos, failed, nframes>>
    /\ UNCHANGED hello_log
    /\ UNCHANGED notRuntimeVars

\* the userId field of a first frame as it was sent: an int, a string of
\* digits, some other string, or missing
IntId(u) == [kind |-> "int", val |-> u]
RawIds ==
    {IntId(u) : u \in 1..MaxUid}
        \cup {[kind |-> "numstr", val |-> 1], [kind |-> "text", val |-> 0],
              [kind |-> "none", val |-> 0]}

\* a HELLO frame with an int userId
HelloFrame(uid, role) == [type |-> "HELLO", userId |-> IntId(uid), role |-> role]

\* what a new connection sends first: a HELLO (with any userId, with or
\* without a role), some other frame, or nothing before the read timeout
FirstFrames ==
    {HelloFrame(h.uid, h.role) : h \in HelloInputs}
        \cup {[type |-> "HELLO", userId |-> id, role |-> "player"]
                 : id \in RawIds}
        \cup {[type |-> "HELLO", userId |-> IntId(1), role |-> ""],
              [type |-> "INPUT", userId |-> IntId(1), role |-> "player"],
              [type |-> "timeout", userId |-> [kind |-> "none", val |-> 0],
               role |-> ""]}

\* int(hello.get("userId")) does not raise
IntOk(id) == id.kind \in {"int", "numstr"}

\* handle_hello without the type test
HelloOk_AnyType(f) == f.type # "timeout" /\ IntOk(f.userId)

\* handle_hello reaches join_queue.append: a frame arrived, it is a HELLO
\* and its userId converts
HelloOk(f) == f.type = "HELLO" /\ IntOk(f.userId)

\* hello.get("role") or "player"
RoleOf(f) == IF f.role = "" THEN "player" ELSE f.role

\* handle_hello for a connection whose first frame is f: queued, or closed
handle_hello(f) ==
    \* the accept thread runs until stop_flag is set or the process dies
    /\ phase \notin {"exit_noplayers", "crashed", "result"}
    /\ IF HelloOk(f)
       THEN Hello(f.userId.val, RoleOf(f))
       ELSE /\ Cardinality({e \in hello_log : ~e.queued}) < MaxDrop
            /\ UNCHANGED <<expect, mode, users, room, join_queue, players,
                           spectators, closed, conns, phase, joinExit, now,
                           last_drop, pollpos, failed, nframes, sent,
                           last_broadcast>>
            /\ UNCHANGED notRuntimeVars
    /\ hello_log' = hello_log \cup
          {[frame |-> f, queued |-> join_queue' # join_queue]}

\* The main loop never reads join_queue, the order of `players`, or a
\* player outside `users`; SpecRuntime takes the HELLOs of expected players
\* and spectators that arrive while the barrier is draining (SpecJoin takes
\* every HELLO at every moment).
ExpectedHello(uid, role) ==
    /\ phase = "join_drain"
    /\ role = "spectator" \/ uid \in Range(expect)
    /\ handle_hello(HelloFrame(uid, role))

RuntimeNext ==
    \/ \E h \in HelloInputs : ExpectedHello(h.uid, h.role)
    \/ JoinFull
    \/ JoinTimeout
    \/ JoinEnter
    \/ JoinPop
    \/ JoinSleep
    \/ Roster
    \/ \E dt \in 0..1 : LoopIter(dt)
    \/ LoopExit
    \/ \E k \in 1..MaxConn, u \in 1..MaxUid, a \in InputActions :
          PollInput(k, u, a)
    \/ \E k \in 1..MaxConn : PollRelay(k)
    \/ \E k \in 1..MaxConn : PollFail(k)
    \/ PollDone
    \/ Gravity
    \/ Check

\* the Runtime up to the start of the match, for every HELLO it accepts
JoinNext ==
    \/ \E f \in FirstFrames : handle_hello(f)
    \/ JoinFull
    \/ JoinTimeout
    \/ JoinEnter
    \/ JoinPop
    \/ JoinSleep
    \/ Roster

\* ------------------------------------------------------------------------
\* TetrisEngine, cell by cell (tetris_engine.py)
\* ------------------------------------------------------------------------
\* engine bounds
MaxCalls == 5
MaxShuffle == 2

W == 10
H == 20

\* cur_shape / hold_slot when there is none (Python None)
NoShape == ""

ORDER == <<"I", "O", "T", "S", "Z", "J", "L">>

\* shape -> rotation -> four (dx, dy) cells
SHAPES ==
    [I |-> << << <<0, 1>>, <<1, 1>>, <<2, 1>>, <<3, 1>> >>,
              << <<2, 0>>, <<2, 1>>, <<2, 2>>, <<2, 3>> >>,
              << <<0, 2>>, <<1, 2>>, <<2, 2>>, <<3, 2>> >>,
              << <<1, 0>>, <<1, 1>>, <<1, 2>>, <<1, 3>> >> >>,
     O |-> << << <<1, 0>>, <<2, 0>>, <<1, 1>>, <<2, 1>> >>,
              << <<1, 0>>, <<2, 0>>, <<1, 1>>, <<2, 1>> >>,
              << <<1, 0>>, <<2, 0>>, <<1, 1>>, <<2, 1>> >>,
              << <<1, 0>>, <<2, 0>>, <<1, 1>>, <<2, 1>> >> >>,
     T |-> << << <<1, 0>>, <<0, 1>>, <<1, 1>>, <<2, 1>> >>,
              << <<1, 0>>, <<1, 1>>, <<2, 1>>, <<1, 2>> >>,
              << <<0, 1>>, <<1, 1>>, <<2, 1>>, <<1, 2>> >>,
              << <<1, 0>>, <<0, 1>>, <<1, 1>>, <<1, 2>> >> >>,
     S |-> << << <<1, 0>>, <<2, 0>>, <<0, 1>>, <<1, 1>> >>,
              << <<1, 0>>, <<1, 1>>, <<2, 1>>, <<2, 2>> >>,
              << <<1, 1>>, <<2, 1>>, <<0, 2>>, <<1, 2>> >>,
              << <<0, 0>>, <<0, 1>>, <<1, 1>>, <<1, 2>> >> >>,
     Z |-> << << <<0, 0>>, <<1, 0>>, <<1, 1>>, <<2, 1>> >>,
              << <<2, 0>>, <<1, 1>>, <<2, 1>>, <<1, 2>> >>,
              << <<0, 1>>, <<1, 1>>, <<1, 2>>, <<2, 2>> >>,
              << <<1, 0>>, <<0, 1>>, <<1, 1>>, <<0, 2>> >> >>,
     J |-> << << <<0, 0>>, <<0, 1>>, <<1, 1>>, <<2, 1>> >>,
              << <<1, 0>>, <<2, 0>>, <<1, 1>>, <<1, 2>> >>,
              << <<0, 1>>, <<1, 1>>, <<2, 1>>, <<2, 2>> >>,
              << <<1, 0>>, <<1, 1>>, <<0, 2>>, <<1, 2>> >> >>,
     L |-> << << <<2, 0>>, <<0, 1>>, <<1, 1>>, <<2, 1>> >>,
              << <<1, 0>>, <<1, 1>>, <<1, 2>>, <<2, 2>> >>,
              << <<0, 1>>, <<1, 1>>, <<2, 1>>, <<0, 2>> >>,
              << <<0, 0>>, <<1, 0>>, <<1, 1>>, <<1, 2>> >> >>]

\* rng.shuffle(bag): the orders explored, ORDER rotated by k places
Shuffles ==
    {[i \in 1..7 |-> ORDER[((i + k - 1) % 7) + 1]] : k \in 1..MaxShuffle}

\* next_piece that reads the last shape of the bag and leaves it there
next_piece_NoPop(bg, shuffled) ==
    LET b == IF bg = <<>> THEN shuffled ELSE bg
    IN  [piece |-> b[Len(b)], bag |-> b]
\* next_piece: refill and shuffle an empty bag, then pop from the end
next_piece(bg, shuffled) ==
    LET b == IF bg = <<>> THEN shuffled ELSE bg
    IN  [piece |-> b[Len(b)], bag |-> SubSeq(b, 1, Len(b) - 1)]

RECURSIVE DrawN(_, _, _)
\* [self.bag_next() for _ in range(n)]
DrawN(bg, shuffled, n) ==
    IF n = 0 THEN [pieces |-> <<>>, bag |-> bg]
    ELSE LET np == next_piece(bg, shuffled)
             rest == DrawN(np.bag, shuffled, n - 1)
         IN  [pieces |-> <<np.piece>> \o rest.pieces, bag |-> rest.bag]

EmptyRow == [c \in 1..W |-> 0]
EmptyBoard == [r \in 1..H |-> EmptyRow]

\* TetrisEngine.__init__ with the five lookahead pieces given
TetrisEngine(q) ==
    [board |-> EmptyBoard, queue |-> q, hold_slot |-> NoShape,
     hold_used |-> FALSE, cur_shape |-> NoShape, rot |-> 0, x |-> 3,
     y |-> 0, top_out |-> FALSE]

\* shape_cells
shape_cells(shape, r) == SHAPES[shape][(r % 4) + 1]

\* collide: some cell off the board or on a filled cell
collide(board, px, py, shape, r) ==
    \E i \in 1..4 :
        LET xx == px + shape_cells(shape, r)[i][1]
            yy == py + shape_cells(shape, r)[i][2]
        IN  \/ xx < 0 \/ xx >= W \/ yy < 0 \/ yy >= H
            \/ board[yy + 1][xx + 1] # 0

\* what a method leaves behind: the Engine, the bag, the shapes it drew,
\* the value it returned, and whether it went through lock_piece
Outcome(en, bg, drawn, ret, locked) ==
    [engine |-> en, bag |-> bg, drawn |-> drawn, ret |-> ret,
     locked |-> locked]

\* the return value of move, rotate and hold (Python None)
NoRet == <<>>

\* spawn_if_needed
spawn_if_needed(en, bg, shuffled) ==
    IF en.cur_shape # NoShape THEN Outcome(en, bg, <<>>, NoRet, FALSE)
    ELSE LET np == next_piece(bg, shuffled)
             shape == Head(en.queue)
         IN  Outcome([en EXCEPT !.cur_shape = shape,
                                !.queue = Tail(en.queue) \o <<np.piece>>,
                                !.rot = 0, !.x = 3, !.y = 0,
                                !.top_out = en.top_out
                                    \/ collide(en.board, 3, 0, shape, 0)],
                     np.bag, <<np.piece>>, NoRet, FALSE)

\* lock_piece that puts the empty rows under the kept rows
lock_piece_RefillBelow(en, bg, shuffled) ==
    LET color == CHOOSE i \in 1..7 : ORDER[i] = en.cur_shape
        cells == shape_cells(en.cur_shape, en.rot)
        painted == [r \in 1..H |-> [c \in 1..W |->
                      IF \E i \in 1..4 : /\ en.x + cells[i][1] = c - 1
                                         /\ en.y + cells[i][2] = r - 1
                      THEN color
                      ELSE en.board[r][c]]]
        new_rows == SelectSeq(painted, LAMBDA row : \E c \in 1..W : row[c] = 0)
        lines == H - Len(new_rows)
        board2 == IF lines # 0
                  THEN new_rows \o [i \in 1..lines |-> EmptyRow]
                  ELSE painted
        sp == spawn_if_needed([en EXCEPT !.board = board2,
                                         !.cur_shape = NoShape,
                                         !.hold_used = FALSE],
                              bg, shuffled)
    IN  Outcome(sp.engine, sp.bag, sp.drawn,
                <<lines, ScoreTable[lines + 1]>>, TRUE)
\* lock_piece: paint the piece, drop the full rows, spawn the next piece
lock_piece(en, bg, shuffled) ==
    LET color == CHOOSE i \in 1..7 : ORDER[i] = en.cur_shape
        cells == shape_cells(en.cur_shape, en.rot)
        painted == [r \in 1..H |-> [c \in 1..W |->
                      IF \E i \in 1..4 : /\ en.x + cells[i][1] = c - 1
                                         /\ en.y + cells[i][2] = r - 1
                      THEN color
                      ELSE en.board[r][c]]]
        new_rows == SelectSeq(painted, LAMBDA row : \E c \in 1..W : row[c] = 0)
        lines == H - Len(new_rows)
        board2 == IF lines # 0
                  THEN [i \in 1..lines |-> EmptyRow] \o new_rows
                  ELSE painted
        sp == spawn_if_needed([en EXCEPT !.board = board2,
                                         !.cur_shape = NoShape,
                                         !.hold_used = FALSE],
                              bg, shuffled)
    IN  Outcome(sp.engine, sp.bag, sp.drawn,
                <<lines, ScoreTable[lines + 1]>>, TRUE)

\* move without the collision test
move_Unchecked(en, bg, dx) ==
    IF en.top_out \/ en.cur_shape = NoShape
    THEN Outcome(en, bg, <<>>, NoRet, FALSE)
    ELSE Outcome([en EXCEPT !.x = en.x + dx], bg, <<>>, NoRet, FALSE)
\* move
move(en, bg, dx) ==
    IF en.top_out \/ en.cur_shape = NoShape
    THEN Outcome(en, bg, <<>>, NoRet, FALSE)
    ELSE IF ~collide(en.board, en.x + dx, en.y, en.cur_shape, en.rot)
         THEN Outcome([en EXCEPT !.x = en.x + dx], bg, <<>>, NoRet, FALSE)
         ELSE Outcome(en, bg, <<>>, NoRet, FALSE)

\* the wall-kick offsets of rotate, tried in the opposite left/right order
Kicks_RightFirst == <<0, 1, -1, 2, -2>>
\* the wall-kick offsets of rotate, in the order tried
Kicks == <<0, -1, 1, -2, 2>>

RECURSIVE TryKicks(_, _, _)
\* the for loop of rotate from the i-th offset on
TryKicks(en, nr, i) ==
    IF i > Len(Kicks) THEN en
    ELSE IF ~collide(en.board, en.x + Kicks[i], en.y, en.cur_shape, nr)
         THEN [en EXCEPT !.rot = nr, !.x = en.x + Kicks[i]]
         ELSE TryKicks(en, nr, i + 1)

\* rotate
rotate(en, bg, cw) ==
    IF en.top_out \/ en.cur_shape = NoShape
    THEN Outcome(en, bg, <<>>, NoRet, FALSE)
    ELSE Outcome(TryKicks(en, (en.rot + (IF cw THEN 1 ELSE -1)) % 4, 1),
                 bg, <<>>, NoRet, FALSE)

\* soft_drop whose lock leaves the completed rows on the board
soft_drop_NoClear(en, bg, shuffled) ==
    IF en.top_out \/ en.cur_shape = NoShape
    THEN Outcome(en, bg, <<>>, <<0, 0>>, FALSE)
    ELSE IF ~collide(en.board, en.x, en.y + 1, en.cur_shape, en.rot)
         THEN Outcome([en EXCEPT !.y = en.y + 1], bg, <<>>, <<0, 1>>, FALSE)
         ELSE LET lk == lock_piece(en, bg, shuffled)
                  cells == shape_cells(en.cur_shape, en.rot)
                  painted == [r \in 1..H |-> [c \in 1..W |->
                      IF \E i \in 1..4 : /\ en.x + cells[i][1] = c - 1
                                         /\ en.y + cells[i][2] = r - 1
                      THEN 1 ELSE en.board[r][c]]]
              IN  [lk EXCEPT !.engine.board = painted]
\* soft_drop
soft_drop(en, bg, shuffled) ==
    IF en.top_out \/ en.cur_shape = NoShape
    THEN Outcome(en, bg, <<>>, <<0, 0>>, FALSE)
    ELSE IF ~collide(en.board, en.x, en.y + 1, en.cur_shape, en.rot)
         THEN Outcome([en EXCEPT !.y = en.y + 1], bg, <<>>, <<0, 1>>, FALSE)
         ELSE lock_piece(en, bg, shuffled)

\* the loop of hard_drop stopped after its first iteration
DropDist_OneRow(en, py) ==
    IF collide(en.board, en.x, py + 1, en.cur_shape, en.rot) THEN 0 ELSE 1
RECURSIVE DropDist(_, _)
\* the while loop of hard_drop: rows fallen from row py until blocked
DropDist(en, py) ==
    IF collide(en.board, en.x, py + 1, en.cur_shape, en.rot) THEN 0
    ELSE 1 + DropDist(en, py + 1)

\* hard_drop without the top_out test
hard_drop_IgnoreTerminal(en, bg, shuffled) ==
    IF en.cur_shape = NoShape
    THEN Outcome(en, bg, <<>>, <<0, 0>>, FALSE)
    ELSE LET dist == DropDist(en, en.y)
             lk == lock_piece([en EXCEPT !.y = en.y + dist], bg, shuffled)
         IN  Outcome(lk.engine, lk.bag, lk.drawn,
                     <<lk.ret[1], lk.ret[2] + dist * 2>>, TRUE)
\* hard_drop
hard_drop(en, bg, shuffled) ==
    IF en.top_out \/ en.cur_shape = NoShape
    THEN Outcome(en, bg, <<>>, <<0, 0>>, FALSE)
    ELSE LET dist == DropDist(en, en.y)
             lk == lock_piece([en EXCEPT !.y = en.y + dist], bg, shuffled)
         IN  Outcome(lk.engine, lk.bag, lk.drawn,
                     <<lk.ret[1], lk.ret[2] + dist * 2>>, TRUE)

\* gravity_step that only ever advances and never locks
gravity_step_NoLock(en, bg, shuffled) ==
    IF en.top_out \/ en.cur_shape = NoShape
    THEN Outcome(en, bg, <<>>, <<0, 0>>, FALSE)
    ELSE IF ~collide(en.board, en.x, en.y + 1, en.cur_shape, en.rot)
         THEN Outcome([en EXCEPT !.y = en.y + 1], bg, <<>>, <<0, 0>>, FALSE)
         ELSE Outcome(en, bg, <<>>, <<0, 0>>, FALSE)
\* gravity_step
gravity_step(en, bg, shuffled) ==
    IF en.top_out \/ en.cur_shape = NoShape
    THEN Outcome(en, bg, <<>>, <<0, 0>>, FALSE)
    ELSE IF ~collide(en.board, en.x, en.y + 1, en.cur_shape, en.rot)
         THEN Outcome([en EXCEPT !.y = en.y + 1], bg, <<>>, <<0, 0>>, FALSE)
         ELSE lock_piece(en, bg, shuffled)

\* hold without the once-per-piece test
hold_Unlimited(en, bg, shuffled) ==
    IF en.top_out \/ en.cur_shape = NoShape
    THEN Outcome(en, bg, <<>>, NoRet, FALSE)
    ELSE IF en.hold_slot = NoShape
         THEN spawn_if_needed([en EXCEPT !.hold_used = TRUE,
                                         !.hold_slot = en.cur_shape,
                                         !.cur_shape = NoShape],
                              bg, shuffled)
         ELSE Outcome([en EXCEPT !.hold_used = TRUE,
                                 !.hold_slot = en.cur_shape,
                                 !.cur_shape = en.hold_slot,
                                 !.rot = 0, !.x = 3, !.y = 0,
                                 !.top_out = en.top_out
                                     \/ collide(en.board, 3, 0,
                                                en.hold_slot, 0)],
                      bg, <<>>, NoRet, FALSE)
\* hold
hold(en, bg, shuffled) ==
    IF en.top_out \/ en.cur_shape = NoShape
    THEN Outcome(en, bg, <<>>, NoRet, FALSE)
    ELSE IF en.hold_used THEN Outcome(en, bg, <<>>, NoRet, FALSE)
    ELSE IF en.hold_slot = NoShape
         THEN spawn_if_needed([en EXCEPT !.hold_used = TRUE,
                                         !.hold_slot = en.cur_shape,
                                         !.cur_shape = NoShape],
                              bg, shuffled)
         ELSE Outcome([en EXCEPT !.hold_used = TRUE,
                                 !.hold_slot = en.cur_shape,
                                 !.cur_shape = en.hold_slot,
                                 !.rot = 0, !.x = 3, !.y = 0,
                                 !.top_out = en.top_out
                                     \/ collide(en.board, 3, 0,
                                                en.hold_slot, 0)],
                      bg, <<>>, NoRet, FALSE)

\* a board whose bottom rows are filled except for the given columns
\* (gaps[i] are the empty columns, 0-based, of the i-th of those rows)
Stack(gaps) ==
    [r \in 1..H |->
        IF r <= H - Len(gaps) THEN EmptyRow
        ELSE [c \in 1..W |->
                IF (c - 1) \in gaps[r - (H - Len(gaps))] THEN 0 ELSE 1]]

\* positions the Engine is taken up from: a new game, and three stacks
\* that end two rows below the top: one well, a three-deep well under a
\* broken row, and two wells one column apart
StartBoards ==
    {EmptyBoard,
     Stack([i \in 1..18 |-> {5}]),
     Stack([i \in 1..18 |-> IF i = 1 THEN {0, 4, 5}
                            ELSE IF i <= 4 THEN {5} ELSE {0}]),
     Stack([i \in 1..18 |-> {4, 6}])}

\* the record of the last call: the method, its argument, where the piece
\* was when it was called, and what it returned
Called(name, arg, en, ret) ==
    [op |-> name, arg |-> arg, at |-> <<en.x, en.y, en.rot>>, ret |-> ret]

\* the room of the Engine under test: two players, the Engine is that of
\* the second (index 1), the first player's Engine has topped out
RoomSize == 2
EngineSide == 1

\* self.scores[side] += amount with the first player's index for `side`
credit_First(totals, side, amount) == [totals EXCEPT ![1] = @ + amount]
\* self.scores[side] += amount / self.lines_total[side] += amount
credit(totals, side, amount) == [totals EXCEPT ![side + 1] = @ + amount]

\* one method call on the Engine as apply_input and tick_drop make it, with
\* what it leaves behind
EngineCall(name, arg, o) ==
    /\ calls < MaxCalls
    /\ calls' = calls + 1
    /\ engine' = o.engine
    /\ bag' = o.bag
    /\ draws' = draws \o o.drawn
    /\ last' = Called(name, arg, engine, o.ret)
    /\ locks' = IF o.locked THEN locks + 1 ELSE locks
    /\ IF name \in {"soft_drop", "hard_drop", "gravity_step"}
       THEN /\ room_scores' = credit(room_scores, EngineSide, o.ret[2])
            /\ room_lines' = credit(room_lines, EngineSide, o.ret[1])
       ELSE UNCHANGED <<room_scores, room_lines>>
    /\ UNCHANGED <<lobbyVars, runtimeVars, wireVars>>

\* main loop: room.engines[i].spawn_if_needed()
Spawn(shuffled) ==
    /\ engine.cur_shape = NoShape
    /\ EngineCall("spawn_if_needed", 0, spawn_if_needed(engine, bag, shuffled))

Move(dx) == EngineCall("move", dx, move(engine, bag, dx))

Rotate(cw) ==
    EngineCall("rotate", IF cw THEN 1 ELSE -1, rotate(engine, bag, cw))

SoftDrop(shuffled) ==
    EngineCall("soft_drop", 0, soft_drop(engine, bag, shuffled))

HardDrop(shuffled) ==
    EngineCall("hard_drop", 0, hard_drop(engine, bag, shuffled))

\* tick_drop passes over an Engine that has topped out
GravityStep(shuffled) ==
    /\ ~engine.top_out
    /\ EngineCall("gravity_step", 0, gravity_step(engine, bag, shuffled))

Hold(shuffled) == EngineCall("hold", 0, hold(engine, bag, shuffled))

EngineNext ==
    \/ \E sh \in Shuffles : Spawn(sh)
    \/ \E dx \in {-1, 1} : Move(dx)
    \/ \E cw \in BOOLEAN : Rotate(cw)
    \/ \E sh \in Shuffles : SoftDrop(sh)
    \/ \E sh \in Shuffles : HardDrop(sh)
    \/ \E sh \in Shuffles : GravityStep(sh)
    \/ \E sh \in Shuffles : Hold(sh)

\* ------------------------------------------------------------------------
\* Framing (utils/protocol.py, NP_project_server/utils/protocol.py and
\* game_server.py)
\* ------------------------------------------------------------------------
\* framing bounds
MaxMsgs == 2
MaxText == 1

\* src/utils/protocol.py
MAX_JSON_LEN == 65536

\* A byte string is kept as a sequence of runs: `bytes` repeated `count`
\* times.  A message is {"t": text} with text one character repeated.
Run(bs, cnt) == [bytes |-> bs, count |-> cnt]

RECURSIVE BytesLen(_)
\* len() of a byte string
BytesLen(rs) ==
    IF rs = <<>> THEN 0
    ELSE Len(Head(rs).bytes) * Head(rs).count + BytesLen(Tail(rs))

\* str.encode("utf-8") of one character: "a" is one byte, U+00E9 (written
\* "e9" here) is two
Utf8(ch) == IF ch = "a" THEN <<97>> ELSE <<195, 169>>
\* bytes.decode("utf-8") of one character
Utf8Char(bs) ==
    IF bs = <<97>> THEN "a" ELSE IF bs = <<195, 169>> THEN "e9" ELSE "?"

\* the messages sent: a short text, or a text that brings the body to the
\* cap or just over it
Messages ==
    LET TextLens ==
          (0..MaxText)
            \cup {MAX_JSON_LEN - 9, MAX_JSON_LEN - 8, MAX_JSON_LEN - 7}
            \cup {(MAX_JSON_LEN - 8) \div 2, (MAX_JSON_LEN - 8) \div 2 + 1}
    IN  {[ch |-> "a", n |-> k] : k \in TextLens}
            \cup {[ch |-> "e9", n |-> k] : k \in TextLens \ {0}}

\* json.dumps(data, ensure_ascii=False).encode("utf-8"), with
\* separators=(",", ":") when compact: {"t":"aaa"} or {"t": "aaa"}
json_dumps(data, compact) ==
    <<Run(<<123, 34, 116, 34, 58>>, 1)>>
      \o (IF compact THEN <<>> ELSE <<Run(<<32>>, 1)>>)
      \o <<Run(<<34>>, 1)>>
      \o (IF data.n = 0 THEN <<>> ELSE <<Run(Utf8(data.ch), data.n)>>)
      \o <<Run(<<34, 125>>, 1)>>

\* a value json.loads does not produce for these bodies
BadJson == [ch |-> "?", n |-> -1]

\* json.loads(body.decode("utf-8")): the opening, optional blank, the quoted
\* text, the closing
json_loads(rs) ==
    LET nb == IF Len(rs) >= 2 /\ rs[2] = Run(<<32>>, 1)
              THEN <<rs[1]>> \o SubSeq(rs, 3, Len(rs)) ELSE rs
    IN  IF /\ Len(nb) \in {3, 4}
           /\ nb[1] = Run(<<123, 34, 116, 34, 58>>, 1)
           /\ nb[2] = Run(<<34>>, 1)
           /\ nb[Len(nb)] = Run(<<34, 125>>, 1)
        THEN IF Len(nb) = 3 THEN [ch |-> "a", n |-> 0]
             ELSE IF Utf8Char(nb[3].bytes) = "?" THEN BadJson
             ELSE [ch |-> Utf8Char(nb[3].bytes), n |-> nb[3].count]
        ELSE BadJson

\* struct.pack("!I", n): four bytes, most significant first
pack_I(n) ==
    <<(n \div 16777216) % 256, (n \div 65536) % 256, (n \div 256) % 256,
      n % 256>>
\* struct.unpack("!I", header)
unpack_I(hd) ==
    hd[1] * 16777216 + hd[2] * 65536 + hd[3] * 256 + hd[4]

\* send_message of the given protocol.py ("utils": src/utils, "np":
\* src/NP_project_server/utils, "game": game_server.py): the frame it
\* writes, or the ValueError of the size test (not in "np")
send_message(impl, data) ==
    LET body == json_dumps(data, impl # "np")
    IN  IF impl # "np" /\ BytesLen(body) > MAX_JSON_LEN
        THEN [ok |-> FALSE, frame |-> <<>>]
        ELSE [ok |-> TRUE,
              frame |-> <<Run(pack_I(BytesLen(body)), 1)>> \o body]

RECURSIVE TakeBytes(_, _)
\* _readn: the first n bytes of the stream and what is left, run by run
\* (the frames on the stream end at run boundaries)
TakeBytes(rs, n) ==
    IF n = 0 THEN [got |-> <<>>, rest |-> rs, short |-> FALSE]
    ELSE IF rs = <<>> THEN [got |-> <<>>, rest |-> <<>>, short |-> TRUE]
    ELSE LET hl == Len(Head(rs).bytes) * Head(rs).count
         IN  IF hl <= n
             THEN LET t == TakeBytes(Tail(rs), n - hl)
                  IN  [got |-> <<Head(rs)>> \o t.got, rest |-> t.rest,
                       short |-> t.short]
             ELSE \* n ends inside this run: whole repetitions only
                  [got |-> <<Run(Head(rs).bytes, n \div Len(Head(rs).bytes))>>,
                   rest |-> <<Run(Head(rs).bytes,
                                  Head(rs).count - n \div Len(Head(rs).bytes))>>
                              \o Tail(rs),
                   short |-> FALSE]

\* recv_message of the given protocol.py on the stream: the message, or the
\* exception it raises, the stream it leaves, the length the header
\* declared and the payload bytes _readn took off the stream
recv_message(impl, rs) ==
    LET hd == TakeBytes(rs, 4)
        length == unpack_I(hd.got[1].bytes)
        bd == TakeBytes(hd.rest, length)
    IN  IF \/ impl = "utils" /\ length > MAX_JSON_LEN
           \/ impl = "game" /\ (length <= 0 \/ length > MAX_JSON_LEN)
        THEN [ok |-> FALSE, data |-> BadJson, rest |-> hd.rest,
              length |-> length, read |-> 0]
        ELSE IF bd.short
        THEN [ok |-> FALSE, data |-> BadJson, rest |-> bd.rest,
              length |-> length, read |-> BytesLen(bd.got)]
        ELSE [ok |-> json_loads(bd.got) # BadJson,
              data |-> json_loads(bd.got), rest |-> bd.rest,
              length |-> length, read |-> BytesLen(bd.got)]

\* one end calls send_message(sock, data)
Send(data) ==
    /\ sender # "raw"
    /\ ~wbroken /\ Len(wsent) < MaxMsgs
    /\ LET o == send_message(sender, data)
       IN  /\ wire' = wire \o o.frame
           /\ wsent' = Append(wsent, [data |-> data, ok |-> o.ok,
                                      frame |-> o.frame])
    /\ UNCHANGED <<sender, receiver, wrecv, wbroken>>
    /\ UNCHANGED <<lobbyVars, runtimeVars, engineVars>>

\* the other end calls recv_message(sock) with a frame waiting
Recv ==
    /\ ~wbroken /\ wire # <<>>
    /\ LET o == recv_message(receiver, wire)
       IN  /\ wire' = o.rest
           /\ wrecv' = Append(wrecv, [ok |-> o.ok, data |-> o.data,
                                      length |-> o.length,
                                      read |-> o.read])
           /\ wbroken' = ~o.ok
    /\ UNCHANGED <<sender, receiver, wsent>>
    /\ UNCHANGED <<lobbyVars, runtimeVars, engineVars>>

\* what sock.recv hands _readn when the peer runs none of the protocol.py:
\* a header declaring `length`, then as many payload bytes
PeerWrite(length) ==
    /\ sender = "raw"
    /\ ~wbroken /\ wire = <<>> /\ Len(wrecv) < MaxMsgs
    /\ wire' = <<Run(pack_I(length), 1)>>
                 \o (IF length = 0 THEN <<>> ELSE <<Run(<<97>>, length)>>)
    /\ UNCHANGED <<sender, receiver, wsent, wrecv, wbroken>>
    /\ UNCHANGED <<lobbyVars, runtimeVars, engineVars>>

WireNext ==
    \/ \E data \in Messages : Send(data)
    \/ Recv
    \/ \E length \in {0, MaxText, MAX_JSON_LEN, MAX_JSON_LEN + 1,
                       2 * MAX_JSON_LEN} : PeerWrite(length)

\* ------------------------------------------------------------------------
\* Specifications
\* ------------------------------------------------------------------------
\* the Runtime before it is launched (held fixed under SpecLobby)
RuntimeIdle ==
    /\ expect = <<>> /\ mode = "survival" /\ users = <<>>
    /\ room = GameRoom(<<>>, "survival")
    /\ join_queue = <<>> /\ players = <<>> /\ spectators = 0
    /\ closed = {} /\ conns = <<>> /\ phase = "none" /\ joinExit = "none"
    /\ now = 0 /\ last_drop = 0 /\ pollpos = 0 /\ failed = {} /\ nframes = 0
    /\ hello_log = {} /\ sent = [u \in 1..MaxUid |-> <<>>]
    /\ last_broadcast = -SnapshotMs

\* no Engine under test (held fixed under the other specifications)
EngineIdle ==
    /\ engine = TetrisEngine(<<>>) /\ bag = <<>> /\ draws = <<>>
    /\ last = Called("none", 0, TetrisEngine(<<>>), NoRet) /\ locks = 0
    /\ calls = 0 /\ room_scores = <<>> /\ room_lines = <<>>

\* no socket under test (held fixed under the other specifications)
WireIdle ==
    /\ sender = "utils" /\ receiver = "utils" /\ wire = <<>>
    /\ wsent = <<>> /\ wrecv = <<>> /\ wbroken = FALSE

\* a lobby with no connection served yet and an empty Store
InitLobby ==
    /\ rooms = <<>>
    /\ room_game_map = {}
    /\ online = [u \in UserIds |-> None]
    /\ launches = <<>>
    /\ lpc = [c \in Conns |-> "idle"]
    /\ lreq = [c \in Conns |-> NoReq]
    /\ lresp = [c \in Conns |-> NoResp]
    /\ reply = [c \in Conns |-> "none"]
    /\ nreq = 0
    /\ current_user_id = [c \in Conns |-> None]
    /\ inbox = [c \in Conns |-> {}]
    /\ peer_closed = {}
    /\ RuntimeIdle
    /\ EngineIdle
    /\ WireIdle

\* a Runtime just launched: main() up to the start of the join loop
InitRuntime ==
    /\ expect \in ExpectRosters
    /\ mode \in Modes
    /\ users = expect
    /\ room = GameRoom(expect, mode)
    /\ join_queue = <<>>
    /\ players = <<>>
    /\ spectators = 0
    /\ closed = {}
    /\ conns = <<>>
    /\ phase = "join_top"
    /\ joinExit = "none"
    /\ now = 0
    /\ last_drop = 0
    /\ pollpos = 0
    /\ failed = {}
    /\ nframes = 0
    /\ hello_log = {}
    /\ sent = [u \in 1..MaxUid |-> <<>>]
    /\ last_broadcast = -SnapshotMs
    /\ rooms = <<>>
    /\ room_game_map = {}
    /\ online = [u \in UserIds |-> None]
    /\ launches = <<>>
    /\ lpc = [c \in Conns |-> "idle"]
    /\ lreq = [c \in Conns |-> NoReq]
    /\ lresp = [c \in Conns |-> NoResp]
    /\ reply = [c \in Conns |-> "none"]
    /\ nreq = 0
    /\ current_user_id = [c \in Conns |-> None]
    /\ inbox = [c \in Conns |-> {}]
    /\ peer_closed = {}
    /\ EngineIdle
    /\ WireIdle

\* the lobby before any connection (held fixed under SpecEngine)
LobbyIdle ==
    /\ rooms = <<>> /\ room_game_map = {}
    /\ online = [u \in UserIds |-> None] /\ launches = <<>>
    /\ lpc = [c \in Conns |-> "idle"] /\ lreq = [c \in Conns |-> NoReq]
    /\ lresp = [c \in Conns |-> NoResp]
    /\ reply = [c \in Conns |-> "none"] /\ nreq = 0
    /\ current_user_id = [c \in Conns |-> None]
    /\ inbox = [c \in Conns |-> {}] /\ peer_closed = {}

\* TetrisEngine(bag_rng=rng()) taken up at one of the start positions:
\* five lookahead draws from a fresh bag, no active piece yet
InitEngine ==
    /\ \E sh \in Shuffles, b \in StartBoards :
          LET d == DrawN(<<>>, sh, 5)
          IN  /\ engine = [TetrisEngine(d.pieces) EXCEPT !.board = b]
              /\ bag = d.bag
              /\ draws = d.pieces
    /\ last = Called("__init__", 0, TetrisEngine(<<>>), NoRet)
    /\ locks = 0
    /\ calls = 0
    /\ room_scores = [i \in 1..RoomSize |-> 0]
    /\ room_lines = [i \in 1..RoomSize |-> 0]
    /\ LobbyIdle
    /\ RuntimeIdle
    /\ WireIdle

\* a fresh connection between two ends, each running one of the protocol.py
InitWire ==
    \* each end runs one of the protocol.py: the clients' (src/utils), the
    \* lobby's (src/NP_project_server/utils) or game_server.py's own; the
    \* writing end may also be a peer that runs none of them ("raw")
    /\ sender \in {"utils", "np", "game", "raw"}
    /\ receiver \in {"utils", "np", "game"}
    /\ wire = <<>> /\ wsent = <<>> /\ wrecv = <<>> /\ wbroken = FALSE
    /\ LobbyIdle
    /\ RuntimeIdle
    /\ EngineIdle

SpecLobby == InitLobby /\ [][LobbyNext]_vars

SpecJoin == InitRuntime /\ [][JoinNext]_vars

SpecRuntime == InitRuntime /\ [][RuntimeNext]_vars

\* the main thread keeps running, and the clock it reads keeps advancing
\* (up to the modelled horizon)
RuntimeFairness ==
    /\ WF_vars(\E dt \in 0..1 : LoopIter(dt))
    /\ SF_vars(LoopIter(1))
    /\ WF_vars(LoopExit)
    /\ WF_vars(PollDone)
    /\ WF_vars(Gravity)
    /\ WF_vars(Check)

SpecRuntimeLive == SpecRuntime /\ RuntimeFairness

\* the whole session while no client sends anything after its first frame:
\* the main thread from the barrier to the result, with the accept thread
\* taking every well-formed HELLO at every moment
SessionNext ==
    \/ \E h \in HelloInputs : handle_hello(HelloFrame(h.uid, h.role))
    \/ JoinFull
    \/ JoinTimeout
    \/ JoinEnter
    \/ JoinPop
    \/ JoinSleep
    \/ Roster
    \/ \E dt \in 0..1 : LoopIter(dt)
    \/ LoopExit
    \/ PollDone
    \/ Gravity
    \/ Check

\* the main thread keeps running through the barrier as well
SpecSessionLive ==
    /\ InitRuntime /\ [][SessionNext]_vars
    /\ RuntimeFairness
    /\ WF_vars(JoinFull \/ JoinTimeout \/ JoinEnter \/ JoinPop \/ JoinSleep
                  \/ Roster)

SpecEngine == InitEngine /\ [][EngineNext]_vars

SpecWire == InitWire /\ [][WireNext]_vars

\* ------------------------------------------------------------------------
\* Properties: Lobby and Store
\* ------------------------------------------------------------------------
\* C1: under any interleaving of accept handlers, no two different
\* connection handlers launch a Runtime for the same room.
C1_NoTwoHandlersSpawn ==
    \A i, j \in 1..Len(launches) :
        launches[i].room_id = launches[j].room_id
            => launches[i].by = launches[j].by

\* C2: over any sequence of accepts and leaves, at most one Runtime is ever
\* launched for a room id.
C2_AtMostOneLaunchPerRoom ==
    \A r \in RoomIds : Cardinality(LaunchesOf(r)) <= 1

\* C3: every room of the Store has at most max_players members.
C3_MembersWithinCapacity ==
    \A r \in 1..Len(rooms) : Len(rooms[r].users) <= rooms[r].max_players

\* C11: the registry maps each user id to at most one connection; the
\* registry write of a successful login on c for u makes it map u to c,
\* changes no other entry and writes nothing to any other connection; a
\* login the Store refuses leaves the registry as it was.
C11_LoginLastWriterWins ==
    /\ [](\A u \in UserIds : online[u] \in Conns \cup {None})
    /\ [][\A c \in Conns :
            (lpc[c] = "login_resp" /\ lpc'[c] = "idle") =>
               IF lresp[c].status = "success"
               THEN /\ online'[lresp[c].id] = c
                    /\ \A u \in UserIds \ {lresp[c].id} : online'[u] = online[u]
                    /\ \A d \in Conns \ {c} :
                          reply'[d] = reply[d] /\ inbox'[d] = inbox[d]
               ELSE online' = online]_vars

\* user 1 logged in on connection 1, then on connection 2
C11_Witness ==
    /\ current_user_id[1] = 1
    /\ current_user_id[2] = 1
    /\ online[1] = 2
    /\ lpc = [c \in Conns |-> "idle"]
    /\ nreq = 2

\* the step in which handler c launches a Runtime
Launched == Len(launches') = Len(launches) + 1
LastLaunch == launches'[Len(launches')]

\* C12: at a launch, the launching connection and every other roster
\* member's registered connection get the same start packet (host, port,
\* users), and no other connection gets anything.
C12_StartPacketToAllOnline ==
    [][Launched =>
         LET l == LastLaunch
             pkt == start_packet(l.port, l.users)
             regd == {online[u] : u \in {v \in Range(l.users) :
                                            /\ v # lreq[l.by].user_id
                                            /\ online[v] # None}}
         IN /\ Delivered(l.by) => pkt \in inbox'[l.by]
            /\ \A d \in regd : Delivered(d) => pkt \in inbox'[d]
            /\ \A d \in Conns \ (regd \cup {l.by}) : inbox'[d] = inbox[d]]_vars

\* C13: a filling accept whose spawn fails gets an error reply, and the
\* handler goes on serving the connection.
C13_SpawnFailureReported ==
    [][\A c \in Conns :
          (lpc[c] = "accept_resp" /\ lpc'[c] = "idle"
             /\ RoomIsFull(lresp[c]) /\ launches' = launches)
            => reply'[c] \in ErrorReplies]_vars

\* C14: no room is ever created for a game the Store does not know and the
\* cache only holds created rooms; the step that answers a create_room for
\* an unknown game creates no room, leaves the cache alone, replies with an
\* error and leaves the connection open.
C14_UnknownGameRejected ==
    /\ [](/\ \A r \in 1..Len(rooms) : rooms[r].game_name = "Tetris_Battle"
          /\ room_game_map \subseteq 1..Len(rooms))
    /\ [][\A c \in Conns :
            (lpc[c] = "create_get" /\ lreq[c].game # "Tetris_Battle"
               /\ lpc'[c] # lpc[c])
              => /\ rooms' = rooms
                 /\ room_game_map' = room_game_map
                 /\ reply'[c] = "error: Unknown game"
                 /\ lpc'[c] = "idle"]_vars

C14_Witness ==
    /\ reply[1] = "error: Unknown game"
    /\ lpc[1] = "idle"
    /\ nreq = 1
    /\ current_user_id[1] = None
    /\ rooms = <<>>
    /\ room_game_map = {}

\* C15: the Store acts on a create_room or accept only for a connection
\* whose handler holds a logged-in user.
C15_RoomRequestsNeedLogin ==
    \A c \in Conns :
        lpc[c] \in {"create_resp", "accept_locked", "accept_resp"}
            => current_user_id[c] # None

\* C16: a handler ended by an exception, its client still there, has
\* written an error frame last.
C16_ErrorFrameBeforeClose ==
    \A c \in Conns :
        (lpc[c] = "closed" /\ c \notin peer_closed)
            => reply[c] \in ErrorReplies

\* ------------------------------------------------------------------------
\* Properties: Runtime
\* ------------------------------------------------------------------------
InMatch == phase \in {"main_top", "poll", "gravity", "check", "result"}
\* the positions at which nothing has changed since the last evaluation
Evaluated == phase \in {"main_top", "result"}

Sides == 1..Len(room.engines)
AliveSides == {s \in Sides : ~room.engines[s].top_out}

\* C4: a frame read from the k-th socket changes no Engine, score or line
\* total other than those of side k (none at all for a spectator's socket).
C4_InputOnlySenderEngine ==
    [][(phase = "poll" /\ pollpos' # pollpos) =>
         \A s \in Sides :
            s # pollpos' =>
               /\ room'.engines[s] = room.engines[s]
               /\ room'.scores[s] = room.scores[s]
               /\ room'.lines_total[s] = room.lines_total[s]]_vars

\* the expected players that joined, in the order of the expected roster
JoinedExpected == SelectSeq(expect, LAMBDA u : u \in Range(players))
\* the joined players outside the expected roster, in connection order
JoinedUnexpected == SelectSeq(players, LAMBDA u : u \notin Range(expect))

TimedOutSubset ==
    /\ phase = "main_top"
    /\ joinExit = "timeout"
    /\ JoinedExpected # <<>>

FreshRoomFor(us) ==
    /\ room.users = us
    /\ Len(room.engines) = Len(us)
    /\ Len(room.scores) = Len(us)
    /\ Len(room.lines_total) = Len(us)
    /\ \A s \in 1..Len(us) : /\ room.engines[s] = NewEngine
                             /\ room.scores[s] = 0
                             /\ room.lines_total[s] = 0

\* C5 as stated: after a timeout with a non-empty strict subset S of the
\* expected players connected, the roster is S in roster order, with fresh
\* Engines and counters, one per member of S.
C5_RosterIsJoinedSubset ==
    TimedOutSubset =>
        /\ users = JoinedExpected
        /\ conns = JoinedExpected
        /\ FreshRoomFor(JoinedExpected)

\* C5 amended: the roster is S in roster order followed by the joined
\* players outside the expected roster in connection order, with fresh
\* Engines and counters, one per roster member.
C5_RosterIsJoinedPlayers ==
    TimedOutSubset =>
        /\ users = JoinedExpected \o JoinedUnexpected
        /\ conns = users
        /\ FreshRoomFor(users)

C5_Witness ==
    /\ TimedOutSubset
    /\ expect = <<2, 1, 3>>
    /\ players = <<4, 1>>
    /\ users = <<1, 4>>

\* C6: two expected, one connected at the timeout, survival: the match is
\* over only if that player's Engine is terminal, and after an evaluation it
\* is over exactly when that Engine is terminal.
SoloAfterTimeout ==
    /\ InMatch
    /\ Len(expect) = 2
    /\ joinExit = "timeout"
    /\ Len(players) = 1
    /\ mode = "survival"

C6_SoloRuleAfterTimeout ==
    SoloAfterTimeout =>
        /\ room.over => room.engines[1].top_out
        /\ Evaluated => (room.over <=> room.engines[1].top_out)

C6_Witness ==
    /\ SoloAfterTimeout
    /\ phase = "result"
    /\ room.over
    /\ room.engines[1].top_out

\* C7: survival with two or more Engines: after an evaluation the match is
\* over exactly when at most one Engine is non-terminal; the winner is the
\* label of the single non-terminal Engine, or draw when none is left.
C7_SurvivalWinner ==
    (InMatch /\ mode = "survival" /\ Len(room.engines) >= 2) =>
        /\ room.over => Cardinality(AliveSides) <= 1
        /\ Evaluated => (room.over <=> Cardinality(AliveSides) <= 1)
        /\ (Evaluated /\ room.over) =>
              /\ \A s \in AliveSides : room.winner = Labels[s]
              /\ AliveSides = {} => room.winner = "draw"

C7_Witness ==
    /\ phase = "result"
    /\ mode = "survival"
    /\ Len(room.engines) = 2
    /\ room.engines[1].top_out
    /\ ~room.engines[2].top_out
    /\ room.winner = "P2"

\* the sides holding the highest score
Leaders == {s \in Sides : \A t \in Sides : room.scores[t] <= room.scores[s]}

C9_LinesModeEnds ==
    (Evaluated /\ mode = "lines"
        /\ \E s \in Sides : room.lines_total[s] >= room.target_lines)
      => room.over

\* C10: a player whose socket read failed in this iteration has a terminal
\* Engine and a closed connection for the rest of the iteration, a closed
\* connection is never polled again, and the evaluation closing the
\* iteration sees the forfeit: in a two-player survival match it ends the
\* match, the other player winning if still non-terminal.
ForfeitSeen ==
    /\ \A k \in failed : room.engines[k].top_out /\ conns[k] \in closed
    /\ (phase = "main_top" /\ failed # {} /\ mode = "survival"
          /\ Len(room.engines) = 2) =>
          /\ room.over
          /\ \A k \in failed :
                ~room.engines[3 - k].top_out => room.winner = Labels[3 - k]

BadFirstFrame(f) ==
    \/ f.type = "timeout"
    \/ f.type # "HELLO"
    \/ f.userId.kind \notin {"int", "numstr"}

Stage(f) ==
    CASE f.type = "WELCOME" -> 1
      [] f.type = "COUNTDOWN" -> 2
      [] f.type = "START" -> 3
      [] f.type \in {"SNAPSHOT", "CHAT"} -> 4
      [] f.type = "GAME_OVER" -> 5

OrderedLog(log) ==
    /\ \A i \in 1..Len(log) : (log[i].type = "WELCOME") <=> (i = 1)
    /\ \A i, j \in 1..Len(log) :
          i < j =>
             /\ Stage(log[i]) <= Stage(log[j])
             /\ (log[i].type = "COUNTDOWN" /\ log[j].type = "COUNTDOWN")
                   => log[i].v > log[j].v
             /\ log[i].type \in {"START", "GAME_OVER"}
                   => log[j].type # log[i].type
    /\ \A i \in 1..Len(log) :
          /\ log[i].type = "START" => (i > 1 /\ log[i - 1].type = "COUNTDOWN")
          /\ Stage(log[i]) > 3 => \E j \in 1..(i - 1) : log[j].type = "START"

\* C18: the frames written to a player's socket are, in order, one WELCOME,
\* COUNTDOWNs with strictly descending seconds, one START, SNAPSHOTs and
\* relayed frames, one GAME_OVER; every connection of a running match has
\* its START, and at the result every live one has its GAME_OVER.
C18_FrameOrder ==
    \A u \in DOMAIN sent :
        /\ OrderedLog(sent[u])
        /\ (InMatch /\ u \in Range(conns)) =>
              \E i \in 1..Len(sent[u]) : sent[u][i].type = "START"
        /\ (phase = "result" /\ u \in LiveConns) =>
              sent[u][Len(sent[u])].type = "GAME_OVER"

C18_Witness ==
    /\ phase = "result"
    /\ \E u \in LiveConns :
          /\ \E i \in 1..Len(sent[u]) : sent[u][i].type = "CHAT"
          /\ \E i \in 1..Len(sent[u]) : sent[u][i].type = "SNAPSHOT"
          /\ sent[u][Len(sent[u])].type = "GAME_OVER"

\* C20: the role index a player was welcomed with is the side under which
\* its Engine is driven, snapshotted and named in the match.
C20_WelcomeLabelIsSide ==
    InMatch =>
        \A u \in Range(conns) :
            /\ sent[u] # <<>>
            /\ sent[u][1].type = "WELCOME"
            /\ sent[u][1].v = SideOf(users, u) + 1

\* the main loop is running
InLoop == phase \in {"main_top", "poll", "gravity", "check"}

\* every player connection has been closed; in timed mode the deadline lies
\* within the modelled time
AllPlayersGone ==
    /\ InLoop
    /\ Range(conns) \subseteq closed
    /\ mode = "timed" =>
          /\ room.start_ts # NoTs
          /\ room.start_ts + TimedSeconds <= MaxTime

\* C19: the main loop is left only with a declared result, and once every
\* player connection has disconnected the session reaches its result.
C19_SessionEnds ==
    /\ [](phase = "result" => room.over)
    /\ AllPlayersGone ~> (phase = "result")

\* ------------------------------------------------------------------------
\* Properties: TetrisEngine
\* ------------------------------------------------------------------------
\* the Engine has an active piece and is not terminal
Active(en) == en.cur_shape # NoShape /\ ~en.top_out

\* the four cells of that shape at that place lie on the 10x20 board and on
\* empty cells
Fits(board, px, py, shape, r) ==
    \A i \in 1..4 :
        LET cx == px + SHAPES[shape][r + 1][i][1]
            cy == py + SHAPES[shape][r + 1][i][2]
        IN  /\ cx \in 0..9 /\ cy \in 0..19
            /\ board[cy + 1][cx + 1] = 0

\* the active piece is where and how it was
PieceUnchanged ==
    /\ engine'.cur_shape = engine.cur_shape
    /\ engine'.x = engine.x /\ engine'.y = engine.y
    /\ engine'.rot = engine.rot

\* C21: in every non-terminal Engine state with an active piece the four
\* cells of the piece are inside the 10x20 board and on empty cells, whatever
\* calls led there; a move whose target does not fit, and a rotate whose
\* target fits at none of its offsets, leave the piece unchanged.
C21_PieceStaysLegal ==
    /\ [](Active(engine) =>
            Fits(engine.board, engine.x, engine.y, engine.cur_shape,
                 engine.rot))
    /\ [][/\ (last'.op = "move" /\ Active(engine)
              /\ ~Fits(engine.board, engine.x + last'.arg, engine.y,
                       engine.cur_shape, engine.rot))
                => PieceUnchanged
          /\ (last'.op = "rotate" /\ Active(engine)
              /\ \A sx \in {0, -1, 1, -2, 2} :
                    ~Fits(engine.board, engine.x + sx, engine.y,
                          engine.cur_shape, (engine.rot + last'.arg) % 4))
                => PieceUnchanged]_vars

\* a move was refused by a filled cell, or a rotate by all five offsets
C21_Witness ==
    /\ Active(engine) /\ last.at = <<engine.x, engine.y, engine.rot>>
    /\ \/ /\ last.op = "move"
          /\ engine.x + last.arg \in 0..9
          /\ ~Fits(engine.board, engine.x + last.arg, engine.y,
                   engine.cur_shape, engine.rot)
          /\ Fits(EmptyBoard, engine.x + last.arg, engine.y,
                  engine.cur_shape, engine.rot)
       \/ /\ last.op = "rotate"
          /\ \A sx \in {0, -1, 1, -2, 2} :
                ~Fits(engine.board, engine.x + sx, engine.y,
                      engine.cur_shape, (engine.rot + last.arg) % 4)

\* C22: cutting the shapes drawn from the bag (five for the lookahead, then
\* one per spawn) into runs of 7 from the first draw on, no shape occurs
\* twice inside a run and every shape is one of I, O, T, S, Z, J, L, so each
\* full run is a permutation of the seven; the lookahead is the last five
\* shapes drawn.
C22_SevenBagRuns ==
    /\ \A i \in 1..Len(draws) :
          draws[i] \in {"I", "O", "T", "S", "Z", "J", "L"}
    /\ \A i, j \in 1..Len(draws) :
          (i < j /\ (i - 1) \div 7 = (j - 1) \div 7) => draws[i] # draws[j]
    /\ Len(draws) >= 5 =>
          engine.queue = SubSeq(draws, Len(draws) - 4, Len(draws))

\* a second run has begun: the bag was emptied and refilled
C22_Witness ==
    /\ Len(draws) >= 8
    /\ last.op \in {"spawn_if_needed", "hold", "soft_drop", "hard_drop",
                    "gravity_step"}

RECURSIVE Fall(_, _)
\* how many rows below row py the active piece still fits, one after another
Fall(en, py) ==
    IF Fits(en.board, en.x, py + 1, en.cur_shape, en.rot)
    THEN 1 + Fall(en, py + 1)
    ELSE 0

\* the step went through a lock
LockStep == locks' = locks + 1

\* the row the piece is locked at in a lock step
LandingY ==
    IF last'.op = "hard_drop" THEN engine.y + Fall(engine, engine.y)
    ELSE engine.y

\* cell (r, c), counted from 1, is one of the piece's cells when it is
\* locked at row ly
PieceCell(en, ly, r, c) ==
    \E i \in 1..4 : /\ en.x + SHAPES[en.cur_shape][en.rot + 1][i][1] = c - 1
                    /\ ly + SHAPES[en.cur_shape][en.rot + 1][i][2] = r - 1

\* the rows that are full once the piece is locked at row ly
FullRows(en, ly) ==
    {r \in 1..20 : \A c \in 1..10 :
        en.board[r][c] # 0 \/ PieceCell(en, ly, r, c)}

\* C23: a lock that completes exactly k rows removes those k rows, keeps
\* every other row (old cells as they were, the piece's cells filled) in the
\* same order, puts k empty rows on top, returns k as the cleared-line
\* count, and leaves a board of 20 rows of 10 cells.
C23_LockClearsFullRows ==
    [][LockStep =>
        \A ly \in {LandingY} : \A full \in {FullRows(engine, ly)} :
          \A k \in {Cardinality(full)} :
            /\ last'.ret[1] = k
            /\ DOMAIN engine'.board = 1..20
            /\ \A r \in 1..20 : DOMAIN engine'.board[r] = 1..10
            /\ \A r \in 1..k : \A c \in 1..10 : engine'.board[r][c] = 0
            /\ \A r \in (1..20) \ full :
                  \A nr \in {r + Cardinality({q \in full : q > r})} :
                     \A c \in 1..10 :
                        IF PieceCell(engine, ly, r, c)
                        THEN engine'.board[nr][c] # 0
                        ELSE engine'.board[nr][c] = engine.board[r][c]]_vars

\* a lock has cleared two or more rows and kept a filled row under them
C23_Witness ==
    /\ locks >= 1 /\ last.op \in {"soft_drop", "hard_drop", "gravity_step"}
    /\ last.ret[1] >= 2
    /\ \E r \in 1..20, c \in 1..10 : engine.board[r][c] # 0

\* the score of the table for k rows cleared at once
TableScore(k) ==
    CASE k = 0 -> 0 [] k = 1 -> 100 [] k = 2 -> 300 [] k = 3 -> 500
      [] k = 4 -> 800

\* C24: a lock awards 0, 100, 300, 500 or 800 for 0, 1, 2, 3 or 4 rows
\* cleared at once (a hard drop adds its distance bonus on top), and the room
\* adds the returned score to the locking player's score and the cleared
\* count to that player's line total, and changes no other player's totals.
C24_LockScoreAndTotals ==
    [][LockStep =>
        /\ last'.ret[1] \in 0..4
        /\ last'.ret[2] =
              TableScore(last'.ret[1])
                + (IF last'.op = "hard_drop"
                   THEN 2 * Fall(engine, engine.y) ELSE 0)
        /\ room_scores'[EngineSide + 1]
              = room_scores[EngineSide + 1] + last'.ret[2]
        /\ room_lines'[EngineSide + 1]
              = room_lines[EngineSide + 1] + last'.ret[1]
        /\ \A i \in 1..RoomSize :
              i # EngineSide + 1 =>
                 /\ room_scores'[i] = room_scores[i]
                 /\ room_lines'[i] = room_lines[i]]_vars

\* a lock that cleared rows has been added to the second player's totals
C24_Witness ==
    /\ last.op \in {"soft_drop", "hard_drop", "gravity_step"} /\ last.ret[1] >= 1
    /\ room_lines[EngineSide + 1] >= 1
    /\ room_scores[EngineSide + 1] >= 100

\* C25: the first hold of a piece lifetime stashes the active piece: with
\* an empty slot the next piece comes from the lookahead, otherwise the held
\* piece comes back, at the spawn position either way; a further hold before
\* the next lock changes nothing in the Engine; the hold-used flag is
\* cleared only by a lock.
C25_HoldOncePerPiece ==
    [][/\ (last'.op = "hold" /\ Active(engine) /\ ~engine.hold_used) =>
            /\ engine'.hold_used
            /\ engine'.hold_slot = engine.cur_shape
            /\ engine'.board = engine.board
            /\ <<engine'.x, engine'.y, engine'.rot>> = <<3, 0, 0>>
            /\ IF engine.hold_slot = NoShape
               THEN /\ engine'.cur_shape = engine.queue[1]
                    /\ Len(draws') = Len(draws) + 1
                    /\ engine'.queue
                          = Tail(engine.queue) \o <<draws'[Len(draws')]>>
               ELSE /\ engine'.cur_shape = engine.hold_slot
                    /\ engine'.queue = engine.queue
                    /\ draws' = draws
       /\ (last'.op = "hold" /\ Active(engine) /\ engine.hold_used) =>
            /\ engine' = engine /\ bag' = bag /\ draws' = draws
       /\ (engine.hold_used /\ ~engine'.hold_used) => LockStep]_vars

\* a second hold on the same piece, away from the spawn column, was refused
C25_Witness ==
    /\ last.op = "hold" /\ Active(engine) /\ engine.hold_used
    /\ engine.x # 3 /\ last.at = <<engine.x, engine.y, engine.rot>>

\* board, active piece, lookahead and held piece of the Engine
Placement(en) ==
    <<en.board, en.cur_shape, en.x, en.y, en.rot, en.queue, en.hold_slot>>

\* what each method would leave and return if called now
CallResults ==
    {move(engine, bag, dx) : dx \in {-1, 1}}
      \cup {rotate(engine, bag, cw) : cw \in BOOLEAN}
      \cup UNION {{soft_drop(engine, bag, sh), hard_drop(engine, bag, sh),
                   gravity_step(engine, bag, sh), hold(engine, bag, sh)}
                     : sh \in Shuffles}

\* C26: the terminal flag is set when a freshly spawned or swapped-in piece
\* collides, and is never cleared; from then on move, rotate, soft_drop,
\* hard_drop, gravity_step and hold leave board, active piece, lookahead and
\* held piece as they are and award no score and no lines.
C26_TerminalIsFinal ==
    /\ [](engine.top_out =>
            \A o \in CallResults :
               /\ Placement(o.engine) = Placement(engine)
               /\ o.engine.top_out
               /\ o.ret \in {NoRet, <<0, 0>>})
    /\ [][/\ engine.top_out =>
               /\ engine'.top_out
               /\ Placement(engine') = Placement(engine)
               /\ room_scores' = room_scores /\ room_lines' = room_lines
          /\ (~engine.top_out /\ engine'.top_out) =>
               /\ last'.op \in {"spawn_if_needed", "hold", "soft_drop",
                                "hard_drop", "gravity_step"}
               /\ <<engine'.x, engine'.y, engine'.rot>> = <<3, 0, 0>>
               /\ ~Fits(engine'.board, 3, 0, engine'.cur_shape, 0)]_vars

\* a terminal Engine has been sent a move or a rotate (neither can set the
\* flag, so it was set before the call)
C26_Witness ==
    /\ engine.top_out /\ last.op \in {"move", "rotate"}
    /\ ~Fits(engine.board, engine.x, engine.y, engine.cur_shape, engine.rot)

\* the active piece would fit with rotation nr when shifted sx columns
FitsAt(en, nr, sx) == Fits(en.board, en.x + sx, en.y, en.cur_shape, nr)

\* C27: rotate tries the target rotation at the offsets 0, -1, +1, -2, +2
\* in that order and takes the first that does not collide, changing the
\* rotation and x together and never y; if all five collide, rotation and
\* position stay as they were.
C27_RotateKickOrder ==
    [][(last'.op = "rotate" /\ Active(engine)) =>
        \A nr \in {(engine.rot + last'.arg) % 4} :
           /\ engine'.y = engine.y
           /\ engine'.cur_shape = engine.cur_shape
           /\ engine'.board = engine.board
           /\ <<engine'.rot, engine'.x>> =
                 IF FitsAt(engine, nr, 0) THEN <<nr, engine.x>>
                 ELSE IF FitsAt(engine, nr, -1) THEN <<nr, engine.x - 1>>
                 ELSE IF FitsAt(engine, nr, 1) THEN <<nr, engine.x + 1>>
                 ELSE IF FitsAt(engine, nr, -2) THEN <<nr, engine.x - 2>>
                 ELSE IF FitsAt(engine, nr, 2) THEN <<nr, engine.x + 2>>
                 ELSE <<engine.rot, engine.x>>]_vars

\* a rotate took the offset -1 where 0 collided and +1 would have fitted too
C27_Witness ==
    /\ last.op = "rotate" /\ Active(engine)
    /\ engine.rot = (last.at[3] + last.arg) % 4
    /\ engine.x = last.at[1] - 1
    /\ ~Fits(engine.board, last.at[1], engine.y, engine.cur_shape, engine.rot)
    /\ Fits(engine.board, last.at[1] + 1, engine.y, engine.cur_shape,
            engine.rot)

\* the distances d such that the piece fits at each of the d rows below it
\* and not at the row after
DropDistances(en) ==
    {d \in 0..19 :
        /\ \A j \in 1..d :
              Fits(en.board, en.x, en.y + j, en.cur_shape, en.rot)
        /\ ~Fits(en.board, en.x, en.y + d + 1, en.cur_shape, en.rot)}

\* C28: hard_drop moves the piece down as far as it goes without colliding
\* (d rows), locks it there, and returns the number of rows cleared with the
\* table score for them plus 2 points per row travelled.
C28_HardDropLocksAtBottom ==
    [][(last'.op = "hard_drop" /\ Active(engine)) =>
        /\ LockStep
        /\ \E d \in DropDistances(engine) :
             \A full \in {FullRows(engine, engine.y + d)} :
                /\ last'.ret = <<Cardinality(full),
                                 TableScore(Cardinality(full)) + 2 * d>>
                /\ \A r \in (1..20) \ full : \A c \in 1..10 :
                      PieceCell(engine, engine.y + d, r, c) =>
                        engine'.board[r + Cardinality({q \in full : q > r})][c]
                           # 0]_vars

\* a hard drop fell at least one row and cleared at least one
C28_Witness ==
    /\ last.op = "hard_drop" /\ locks >= 1
    /\ last.ret[1] >= 1 /\ last.ret[2] > TableScore(last.ret[1])

\* C29: from any Engine state gravity_step and soft_drop leave the same
\* Engine (board, piece, lookahead, hold slot, flags) and the same bag, and
\* return the same cleared-line count: both advance one row when the row
\* below is free and both lock otherwise; only the score of a free one-row
\* advance differs, 1 for soft_drop and 0 for gravity_step.
C29_GravityIsSoftDrop ==
    \A sh \in Shuffles :
       \A s \in {soft_drop(engine, bag, sh)} :
          \A g \in {gravity_step(engine, bag, sh)} :
             /\ s.engine = g.engine /\ s.bag = g.bag /\ s.drawn = g.drawn
             /\ s.ret[1] = g.ret[1]
             /\ IF Active(engine)
                   /\ Fits(engine.board, engine.x, engine.y + 1,
                           engine.cur_shape, engine.rot)
                THEN /\ s.ret = <<0, 1>> /\ g.ret = <<0, 0>>
                     /\ s.engine = [engine EXCEPT !.y = engine.y + 1]
                ELSE /\ s.ret = g.ret
                     /\ Active(engine) => (s.locked /\ g.locked)

\* gravity has just locked a piece and cleared a row, and the next piece can
\* still fall, so a soft drop would now score where gravity does not
C29_Witness ==
    /\ last.op = "gravity_step" /\ last.ret[1] >= 1 /\ Active(engine)
    /\ Fits(engine.board, engine.x, engine.y + 1, engine.cur_shape,
            engine.rot)

\* ------------------------------------------------------------------------
\* Properties: framing
\* ------------------------------------------------------------------------
\* the send_message calls that wrote a frame
Wrote(s) == s.ok

\* the encoded body of a message as the writing end encodes it
BodyOf(data) == json_dumps(data, sender # "np")

\* C30: a message whose encoded body is within the cap comes back equal from
\* recv_message, and its frame is a 4-byte big-endian length equal to the
\* body length followed by exactly the body; a message whose body is over
\* the cap makes send_message fail with nothing written.
C30_FramingRoundTrip ==
    /\ \A i \in 1..Len(wsent) :
          IF BytesLen(BodyOf(wsent[i].data)) <= 65536
          THEN /\ wsent[i].ok
               /\ wsent[i].frame[1].count = 1
               /\ Len(wsent[i].frame[1].bytes) = 4
               /\ \A j \in 1..4 : wsent[i].frame[1].bytes[j] \in 0..255
               /\ wsent[i].frame[1].bytes[1] * 16777216
                    + wsent[i].frame[1].bytes[2] * 65536
                    + wsent[i].frame[1].bytes[3] * 256
                    + wsent[i].frame[1].bytes[4]
                      = BytesLen(BodyOf(wsent[i].data))
               /\ Tail(wsent[i].frame) = BodyOf(wsent[i].data)
          ELSE ~wsent[i].ok /\ wsent[i].frame = <<>>
    /\ \A i \in 1..Len(wrecv) :
          (/\ sender # "raw"
           /\ BytesLen(BodyOf(SelectSeq(wsent, Wrote)[i].data)) <= 65536) =>
             /\ wrecv[i].ok
             /\ wrecv[i].data = SelectSeq(wsent, Wrote)[i].data

\* C31: recv_message fails, with no payload byte taken off the stream,
\* whenever the declared length is over the maximum or is zero.
C31_BadLengthRejectedUnread ==
    \A i \in 1..Len(wrecv) :
       (wrecv[i].length > MAX_JSON_LEN \/ wrecv[i].length <= 0) =>
          ~wrecv[i].ok /\ wrecv[i].read = 0

\* ------------------------------------------------------------------------
\* Properties: Store member list, registry, sockets, ports
\* ------------------------------------------------------------------------
\* s lists no id twice
NoRepeat(s) == \A i, j \in 1..Len(s) : s[i] = s[j] => i = j

\* C32: room_accept of an id already in room.users leaves users as it is;
\* users never lists an id twice; and every Store step leaves each room's
\* list unchanged, adds one new id at its end, or takes one id out keeping
\* the others in order (so members are listed in join order).
C32_AcceptIdempotent ==
    /\ [](\A rid \in 1..Len(rooms) : NoRepeat(rooms[rid].users))
    /\ [][/\ \A c \in Conns :
               (/\ lpc[c] = "accept_call" /\ lpc'[c] = "accept_locked"
                /\ HasRoom(rooms, lreq[c].room_id)
                /\ lreq[c].user_id \in Range(rooms[lreq[c].room_id].users))
                  => rooms' = rooms
          /\ \A rid \in 1..Len(rooms) :
               \/ rooms'[rid].users = rooms[rid].users
               \/ \E u \in UserIds \ Range(rooms[rid].users) :
                     rooms'[rid].users = Append(rooms[rid].users, u)
               \/ \E i \in 1..Len(rooms[rid].users) :
                     rooms'[rid].users =
                        SubSeq(rooms[rid].users, 1, i - 1)
                          \o SubSeq(rooms[rid].users, i + 1,
                                    Len(rooms[rid].users))]_vars

\* the Store has just served an accept for the host of a room nobody has
\* left (the two requests so far are the create_room and this accept), and
\* the host is still the only member
C32_Witness ==
    \E c \in Conns :
       /\ lpc[c] = "accept_locked" /\ nreq = 2
       /\ HasRoom(rooms, lreq[c].room_id)
       /\ lreq[c].user_id = rooms[lreq[c].room_id].host_user_id
       /\ rooms[lreq[c].room_id].users = <<lreq[c].user_id>>

\* C33: past the join barrier the roster, the Engine list and the connection
\* list have the same length and order, every connected player id has
\* exactly one side, and no connection is looked up for a roster member
\* that did not connect (the lookup players[u] never raises).
C33_RosterEnginesConnsAligned ==
    /\ phase # "crashed"
    /\ phase = "main_top" =>
          /\ Len(users) = Len(room.engines)
          /\ conns = users
          /\ room.users = users
          /\ \A uid \in PlayerIds(players) :
                Cardinality({i \in 1..Len(users) : users[i] = uid}) = 1

\* C34: when the handler of a connection ends, a registry entry that maps
\* to another connection is left as it is: after u logs in on c1 and then
\* on c2, the end of c1 leaves the registry mapping u to c2.
C34_CleanupOnlyOwnEntry ==
    [][\A c \in Conns :
          (ConnOpen(c) /\ lpc'[c] \in {"closed", "left"}) =>
             \A u \in UserIds :
                (online[u] # None /\ online[u] # c) => online'[u] = online[u]
      ]_vars

\* C35: every registry entry maps to a connection whose handler has not
\* finished.
C35_RegistryEntriesOpen ==
    \A u \in UserIds : online[u] # None => ConnOpen(online[u])

\* C36: the registry comes to map user u to connection c only by a
\* successful login for u on c; no other request on c writes that entry.
C36_RegistryOnlyByLogin ==
    [][\A u \in UserIds :
          (online'[u] # None /\ online'[u] # online[u]) =>
             /\ lpc[online'[u]] = "login_resp"
             /\ lresp[online'[u]].status = "success"
             /\ lresp[online'[u]].id = u
      ]_vars

\* handler d, having launched a Runtime, writes the start notification to
\* connection c in its push loop (under _LOCK)
PushedTo(d, c) ==
    /\ c # d
    /\ lpc[d] = "accept_resp" /\ Len(launches') = Len(launches) + 1
    /\ reply'[d] = "start"
    /\ c \in PushTargets(lresp[d].users, lreq[d].user_id)

\* C37: no handler writes a start notification to a connection while that
\* connection's own handler is inside send_message on the same socket.
C37_OneWriterPerSocket ==
    [][\A c, d \in Conns : PushedTo(d, c) => lpc[c] # "sending"]_vars

\* ------------------------------------------------------------------------
\* Properties: join queue after the barrier
\* ------------------------------------------------------------------------
\* C38: a connection that is on the join queue while the match is running
\* (its HELLO was taken before or after the barrier ended) is eventually
\* taken off the queue by the main thread, which is where its WELCOME is
\* sent or the connection is closed.
C38_QueuedHelloAnswered ==
    (join_queue # <<>> /\ InLoop) ~> (join_queue = <<>>)

\* ------------------------------------------------------------------------
\* Properties: session ports
\* ------------------------------------------------------------------------
\* C39: no two of the Runtimes launched (each is starting or running for
\* the whole of the lobby activity considered) were given the same port.
C39_DistinctPorts ==
    \A i, j \in 1..Len(launches) :
       i # j => launches[i].port # launches[j].port

\* ------------------------------------------------------------------------
\* Properties: board rows
\* ------------------------------------------------------------------------
\* C40: between Engine operations every row of the board has an empty cell,
\* and the number of rows a lock reports cleared is between 0 and 4 (an
\* index of the five-entry score table).
C40_NoFullRowBetweenCalls ==
    /\ \A r \in 1..20 : \E c \in 1..10 : engine.board[r][c] = 0
    /\ Len(last.ret) = 2 => last.ret[1] \in 0..4

\* a soft drop has just locked a piece that completed a row, with filled
\* cells left on the board
C40_Witness ==
    /\ last.op = "soft_drop" /\ locks >= 1 /\ last.ret[1] >= 1
    /\ \E r \in 1..20, c \in 1..10 : engine.board[r][c] # 0
====
